---------------------------- MODULE Spec2Model ----------------------------
(***************************************************************************)
(* Attack-path post-processing engine of BloodHound:                       *)
(*   - ResolveAllGroupMemberships (packages/go/analysis/ad/membership.go)  *)
(*   - CalculateCrossProductNodeSets (packages/go/analysis/ad/ad.go)       *)
(*   - PostADCSESC1 / isCertTemplateValidForEsc1 (analysis/ad/esc1.go)     *)
(*   - the reader/writer operation used by the Post* derivers              *)
(*                                                                         *)
(* Node IDs are small naturals.  A membership edge <<s, e>> is a MemberOf  *)
(* or MemberOfLocalGroup relationship with StartID s and EndID e.          *)
(***************************************************************************)
EXTENDS Integers, Sequences, FiniteSets, Bags, TLC

\* ------------------------------------------------------------------ bounds
\* group membership resolution
NumNodes == 3
MaxEdges == 3
\* cross products
CrossNumNodes == 4
CrossMaxEdges == 3
MaxSlices == 3
MaxEntities == 3

Nodes == 1..NumNodes

\* analysis.MaximumDatabaseParallelWorkers
MaximumDatabaseParallelWorkers == 6

VARIABLES
    edges,          \* membership relationships stored in the graph database
    groups,         \* IDs of the nodes that carry the Group or LocalGroup kind
    adGroupIDs,     \* the fetched group IDs the for loop has not come to yet
    traversalMap,   \* the visited bitmap shared by all roots of one run
    segQueue,       \* segments submitted to the traversal workers, not yet picked up
    inflight,       \* delegate invocations currently running on a worker
    memberships,    \* the path aggregator under construction
    delegateCalls,  \* per node: number of delegate invocations on a segment of that node
    pc,             \* position of ResolveAllGroupMemberships
    delegateErr,    \* the error a delegate invocation returned: <<>>, or <<segment>>
    resolved,       \* what ResolveAllGroupMemberships returned, <<>> before it returns
    delegateLog,    \* the delegate invocations that have returned nextSegments, nil
    \* --- one call of CalculateCrossProductNodeSets
    groupKinds,     \* IDs of the nodes whose Kinds hold Group or LocalGroup
    groupExpansions,\* the aggregator handed to the call
    specialGroups,  \* what FetchAuthUsersAndEveryoneGroups returns
    nodeSlices,     \* the nodeSlices arguments, each the IDs of its entities
    resultEntities, \* the returned set
    cpPc,           \* "idle", "call", "returned"
    \* --- one call of PostADCSESC1 (with groupKinds, groupExpansions, specialGroups)
    publishedCertTemplates, \* cache.GetPublishedTemplateCache(enterpriseCA.ID)
    ecaEnrollers,   \* cache.GetEnterpriseCAEnrollers(enterpriseCA.ID)
    targetDomains,  \* IDs of the target domains
    outC,           \* bag of the jobs handed to channels.Submit
    esc1Pc,         \* "idle", "call", "returned"
    \* --- one call of isCertTemplateValidForEsc1
    ct,             \* the Properties of the certificate template node
    validResult,    \* the returned (bool, error), <<>> before the call
    \* --- one run of PostLocalGroups on its operation
    numComputers,   \* number of computers FetchComputers returned
    submitted,      \* SubmitReader calls that have returned
    running,        \* per number of jobs still to emit: busy reader workers
    jobC,           \* number of jobs in the bounded output channel
    opErrors,       \* number of errors the operation has collected
    opPc,           \* position of PostLocalGroups
    \* --- one run of PostDCSync or PostSyncLAPSPassword on its operation
    syncKind,       \* "DCSync" or "SyncLAPSPassword": which of the two runs
    syncGraph,      \* per collected domain: what the graph queries answer
    toSubmit,       \* domains the for loop has not submitted a reader for yet
    readers,        \* per domain: the state of its reader job
    syncChan,       \* the jobs in the bounded output channel, oldest first
    received,       \* bag of the jobs the writer has taken from the channel
    written,        \* bag of the jobs the writer has written
    delivered,      \* bag of the jobs for which channels.Submit has returned
    syncErrors,     \* the errors the operation has collected, oldest first
    syncPc,         \* position of the post-processing function
    syncResult,     \* the error it returned, <<>> before it returns
    \* --- one call of FetchCanRDPEntityBitmapForComputer (with groupKinds, groupExpansions)
    rdpArgs,        \* the arguments and what the graph answers about the computer
    rdpResult,      \* how the call ended, <<>> before it ends
    rdpPc,          \* "idle", "call", "returned"
    \* --- one call of GetADCSESC1EdgeComposition
    escGraph,       \* the relationships around the edge's start node and domain
    candidateSegments,  \* per Enterprise CA ID: the terminal segments, in append order
    path1EnterpriseCAs, \* bitmap of the CAs the Path-1 matches recorded
    path2EnterpriseCAs, \* bitmap of the CAs the Path-2 matches recorded
    terminals,      \* matches of the running traversal not yet handed to its Do callback
    compResult,     \* the returned (PathSet, error), <<>> before the call returns
    compPc,         \* "idle", "start", "p1", "p2", "returned"
    \* --- the analysis_request_switch table and the calls running on it
    requestSwitch,  \* bag of the rows of analysis_request_switch
    requestCalls,   \* per caller: the position of its call and what it has read
    requestsMade,   \* number of calls that have been started
    requestClock,   \* time.Now().UTC() of the latest write
    \* --- one request handled by HandleDatabaseWipe
    payload,         \* HandleDatabaseWipe: the DatabaseWipe of the request body
    kickoffAnalysis, \* HandleDatabaseWipe: the flag that starts an analysis
    wipeErrors,      \* HandleDatabaseWipe: errors, the fields that failed to delete
    dbCalls,         \* history: the calls made on s.DB, in order, with their outcome
    wipeStatus,      \* the response written, "none" while there is none
    wipePc,          \* HandleDatabaseWipe: the handler's position
    \* --- the Authorizer and the context of one request
    authCtx,         \* auth.Context: its owner and its permission overrides
    authResult,      \* the latest Authorizer call: its arguments and its answer
    \* --- the arguments of ResolveAllGroupMemberships beyond the graph
    additionalCriteria, \* the criteria the caller passes, <<>> when none
    administrators,     \* the nodes whose object ID ends in the Administrators suffix
    \* --- one CompositionCounter and the goroutines calling Get
    counter,        \* CompositionCounter.counter
    getCalls,       \* per goroutine: where its call of Get is, its ret, its calls so far
    gotten,         \* the values Get has returned, in the order of the returns
    \* --- runs of LinkWellKnownGroups on one graph
    lkDomains,      \* the domain nodes GetCollectedDomains returns
    lkNodes,        \* the nodes carrying a well-known object ID, by node ID
    lkEdges,        \* the MemberOf relationships between them, by relationship ID
    lkNext,         \* index of the domain the for loop comes to next
    lkErrors,       \* number of errors the collector of the run holds
    lkRuns,         \* per returned run: its error and the graph it left
    lkPc            \* "idle", "call", "loop"

resolveVars == <<edges, groups, adGroupIDs, traversalMap, segQueue,
                 inflight, memberships, delegateCalls, pc, delegateErr, resolved,
                 delegateLog>>

graphVars == <<groupKinds, groupExpansions, specialGroups>>

callVars == <<nodeSlices, resultEntities, cpPc>>

esc1Vars == <<publishedCertTemplates, ecaEnrollers, targetDomains, outC, esc1Pc>>

templateVars == <<ct, validResult>>

opVars == <<numComputers, submitted, running, jobC, opErrors, opPc>>

syncVars == <<syncKind, syncGraph, toSubmit, readers, syncChan, received,
              written, delivered, syncErrors, syncPc, syncResult>>

rdpVars == <<rdpArgs, rdpResult, rdpPc>>

compVars == <<escGraph, candidateSegments, path1EnterpriseCAs, path2EnterpriseCAs, terminals, compResult, compPc>>

requestVars == <<requestSwitch, requestCalls, requestsMade, requestClock>>

wipeVars == <<payload, kickoffAnalysis, wipeErrors, dbCalls, wipeStatus, wipePc>>

authVars == <<authCtx, authResult>>

criteriaVars == <<additionalCriteria, administrators>>

counterVars == <<counter, getCalls, gotten>>

linkVars == <<lkDomains, lkNodes, lkEdges, lkNext, lkErrors, lkRuns, lkPc>>

\* what a run of ResolveAllGroupMemberships leaves alone
notResolveVars == <<graphVars, callVars, esc1Vars, templateVars, opVars, syncVars, rdpVars, compVars, requestVars, wipeVars, authVars, criteriaVars, counterVars, linkVars>>

\* what a call of CalculateCrossProductNodeSets leaves alone
notCrossVars == <<resolveVars, esc1Vars, templateVars, opVars, syncVars, rdpVars, compVars, requestVars, wipeVars, authVars, criteriaVars, counterVars, linkVars>>

\* what a call of PostADCSESC1 leaves alone
notEsc1Vars == <<resolveVars, callVars, templateVars, opVars, syncVars, rdpVars, compVars, requestVars, wipeVars, authVars, criteriaVars, counterVars, linkVars>>

\* what a call of isCertTemplateValidForEsc1 leaves alone
notTemplateVars == <<resolveVars, graphVars, callVars, esc1Vars, opVars, syncVars, rdpVars, compVars, requestVars, wipeVars, authVars, criteriaVars, counterVars, linkVars>>

\* what a run of PostLocalGroups leaves alone
notOpVars == <<resolveVars, graphVars, callVars, esc1Vars, templateVars, syncVars, rdpVars, compVars, requestVars, wipeVars, authVars, criteriaVars, counterVars, linkVars>>

\* what a run of PostDCSync or PostSyncLAPSPassword leaves alone
notSyncVars == <<resolveVars, callVars, esc1Vars, templateVars, opVars, rdpVars, compVars, requestVars, wipeVars, authVars, criteriaVars, counterVars, linkVars>>

\* what a call of FetchCanRDPEntityBitmapForComputer leaves alone
notRdpVars == <<resolveVars, callVars, esc1Vars, templateVars, opVars, syncVars, compVars, requestVars, wipeVars, authVars, criteriaVars, counterVars, linkVars>>

\* what a call of GetADCSESC1EdgeComposition leaves alone
notCompVars == <<resolveVars, graphVars, callVars, esc1Vars, templateVars, opVars, syncVars, rdpVars, requestVars, wipeVars, authVars, criteriaVars, counterVars, linkVars>>

\* what the calls on analysis_request_switch leave alone
notRequestVars == <<resolveVars, graphVars, callVars, esc1Vars, templateVars, opVars, syncVars, rdpVars, compVars, wipeVars, authVars, criteriaVars, counterVars, linkVars>>

\* what a call of HandleDatabaseWipe leaves alone
notWipeVars == <<resolveVars, graphVars, callVars, esc1Vars, templateVars, opVars, syncVars, rdpVars, compVars, requestVars, authVars, criteriaVars, counterVars, linkVars>>

\* what a call on the Authorizer leaves alone
notAuthVars == <<resolveVars, graphVars, callVars, esc1Vars, templateVars, opVars, syncVars, rdpVars, compVars, requestVars, wipeVars, criteriaVars, counterVars, linkVars>>

\* what the calls of CompositionCounter.Get leave alone
notCounterVars == <<resolveVars, graphVars, callVars, esc1Vars, templateVars, opVars, syncVars, rdpVars, compVars, requestVars, wipeVars, authVars, criteriaVars, linkVars>>

\* what the runs of LinkWellKnownGroups leave alone
notLinkVars == <<resolveVars, graphVars, callVars, esc1Vars, templateVars, opVars, syncVars, rdpVars, compVars, requestVars, wipeVars, authVars, criteriaVars, counterVars>>

vars == <<resolveVars, graphVars, callVars, esc1Vars, templateVars, opVars, syncVars, rdpVars, compVars, requestVars, wipeVars, authVars, criteriaVars, counterVars, linkVars>>

\* ------------------------------------------------ parts that are not running
\* ResolveAllGroupMemberships has not been called
ResolveIdle ==
    /\ edges = {}
    /\ groups = {}
    /\ adGroupIDs = {}
    /\ traversalMap = {}
    /\ segQueue = {}
    /\ inflight = {}
    /\ memberships = [sets |-> <<>>, shortcuts |-> <<>>]
    /\ delegateCalls = <<>>
    /\ pc = "idle"
    /\ delegateErr = <<>>
    /\ resolved = <<>>
    /\ delegateLog = {}

\* no aggregator and no graph has been handed to a deriver
GraphIdle ==
    /\ groupKinds = {}
    /\ groupExpansions = [sets |-> <<>>, shortcuts |-> <<>>]
    /\ specialGroups = {}

\* CalculateCrossProductNodeSets has not been called on its own
CallIdle ==
    /\ nodeSlices = <<>>
    /\ resultEntities = {}
    /\ cpPc = "idle"

\* PostADCSESC1 has not been called
Esc1Idle ==
    /\ publishedCertTemplates = <<>>
    /\ ecaEnrollers = {}
    /\ targetDomains = {}
    /\ outC = <<>>
    /\ esc1Pc = "idle"

\* isCertTemplateValidForEsc1 has not been called on its own
TemplateIdle ==
    /\ ct = <<>>
    /\ validResult = <<>>

\* PostLocalGroups has not been called
OpIdle ==
    /\ numComputers = 0
    /\ submitted = 0
    /\ running = <<>>
    /\ jobC = 0
    /\ opErrors = 0
    /\ opPc = "idle"

\* neither PostDCSync nor PostSyncLAPSPassword has been called
SyncIdle ==
    /\ syncKind = "none"
    /\ syncGraph = <<>>
    /\ toSubmit = {}
    /\ readers = <<>>
    /\ syncChan = <<>>
    /\ received = <<>>
    /\ written = <<>>
    /\ delivered = <<>>
    /\ syncErrors = <<>>
    /\ syncPc = "idle"
    /\ syncResult = <<>>

\* FetchCanRDPEntityBitmapForComputer has not been called
RdpIdle ==
    /\ rdpArgs = <<>>
    /\ rdpResult = <<>>
    /\ rdpPc = "idle"

\* GetADCSESC1EdgeComposition has not been called
CompIdle ==
    /\ escGraph = <<>>
    /\ candidateSegments = <<>>
    /\ path1EnterpriseCAs = {}
    /\ path2EnterpriseCAs = {}
    /\ terminals = {}
    /\ compResult = <<>>
    /\ compPc = "idle"

\* no call on analysis_request_switch has been made
RequestIdle ==
    /\ requestSwitch = <<>>
    /\ requestCalls = <<>>
    /\ requestsMade = 0
    /\ requestClock = 0

\* no request has reached HandleDatabaseWipe
WipeIdle ==
    /\ payload = <<>>
    /\ kickoffAnalysis = FALSE
    /\ wipeErrors = <<>>
    /\ dbCalls = <<>>
    /\ wipeStatus = "none"
    /\ wipePc = "idle"

\* no context has been handed to the Authorizer
AuthIdle ==
    /\ authCtx = <<>>
    /\ authResult = <<>>

\* ResolveAllGroupMemberships is called with no additional criteria
CriteriaIdle ==
    /\ additionalCriteria = <<>>
    /\ administrators = {}

\* no CompositionCounter is in use
CounterIdle ==
    /\ counter = 0
    /\ getCalls = <<>>
    /\ gotten = <<>>

\* LinkWellKnownGroups is not called
LinkIdle ==
    /\ lkDomains = <<>>
    /\ lkNodes = <<>>
    /\ lkEdges = <<>>
    /\ lkNext = 0
    /\ lkErrors = 0
    /\ lkRuns = <<>>
    /\ lkPc = "idle"

\* ------------------------------------------------------------ helpers
Last(s) == s[Len(s)]

Range(s) == { s[i] : i \in 1..Len(s) }

\* all orderings of a finite set
Perms(S) == { p \in [1..Cardinality(S) -> S] : \A x \in S : \E i \in DOMAIN p : p[i] = x }

\* subsets of S with at most k elements
RECURSIVE SubsetsUpTo(_, _)
SubsetsUpTo(S, k) ==
    IF k = 0 \/ S = {} THEN {{}}
    ELSE LET x == CHOOSE y \in S : TRUE
             rest == S \ {x}
         IN  SubsetsUpTo(rest, k) \cup { T \cup {x} : T \in SubsetsUpTo(rest, k - 1) }

\* ------------------------------------------------ segments (graph.IDSegment)
\* A segment is the chain of node IDs from the traversal root to its own node.
NewRootIDSegment(root) == <<root>>

Descend(segment, nextID) == Append(segment, nextID)

SegNode(segment) == Last(segment)

\* ------------------------------------------------ path aggregator (impact)
\* An aggregator over the node IDs ids: no set holds a member, no shortcut is pending.
NewAggregator(ids) == [sets |-> [n \in ids |-> {}], shortcuts |-> [n \in ids |-> {}]]

\* Every node of the chain below position i is a member of the node at position i.
AddPath(agg, path) ==
    [agg EXCEPT !.sets =
        [n \in DOMAIN agg.sets |->
            agg.sets[n] \cup { path[j] : j \in { k \in 1..Len(path) :
                                 \E i \in 1..(k - 1) : path[i] = n } }]]

\* As AddPath, and every trunk node records that the terminal's own set is to be
\* OR'd into its set when its cardinality is asked for.
AddShortcut(agg, path) ==
    LET walked == AddPath(agg, path)
    IN  [walked EXCEPT !.shortcuts =
            [n \in DOMAIN agg.shortcuts |->
                IF \E i \in 1..(Len(path) - 1) : path[i] = n
                THEN agg.shortcuts[n] \cup {SegNode(path)}
                ELSE agg.shortcuts[n]]]

\* nodes whose sets are OR'd into id's set: id and everything reachable by shortcuts
RECURSIVE ShortcutClosure(_, _, _)
ShortcutClosure(agg, seen, frontier) ==
    IF frontier = {} THEN seen
    ELSE LET next == UNION { agg.shortcuts[n] : n \in frontier } \ seen
         IN  ShortcutClosure(agg, seen \cup next, next)

\* PathAggregator.Cardinality(id): resolves the pending shortcuts of id
AggCardinality(agg, id) ==
    IF id \notin DOMAIN agg.sets THEN {}
    ELSE UNION { agg.sets[n] : n \in ShortcutClosure(agg, {id}, {id}) }

\* ------------------------------------------------ newTraversalQuery
\* DirectionInbound without the query.Not(...) criterion
InboundTriplesWithSelfLoops(E, segment) ==
    { t \in E : t[2] = SegNode(segment) }

\* DirectionInbound: EndID = segment.Node and StartID # segment.Node, and the
\* relationship has one of the membership kinds (all edges of the model have).
InboundTriples(E, segment) ==
    { t \in E : t[2] = SegNode(segment) /\ ~(t[1] = SegNode(segment)) }

\* DirectionOutbound: StartID = segment.Node and EndID # segment.Node
OutboundTriples(E, segment) ==
    { t \in E : t[1] = SegNode(segment) /\ ~(t[2] = SegNode(segment)) }

DirectionInbound == "DirectionInbound"
DirectionOutbound == "DirectionOutbound"
DirectionBoth == "DirectionBoth"

\* the relationships the returned query yields, or the error of an
\* unsupported direction
newTraversalQuery(E, segment, direction) ==
    CASE direction = DirectionInbound ->
            [triples |-> InboundTriples(E, segment), err |-> FALSE]
      [] direction = DirectionOutbound ->
            [triples |-> OutboundTriples(E, segment), err |-> FALSE]
      [] OTHER -> [triples |-> {}, err |-> TRUE]

\* ------------------------------------------------ ResolveAllGroupMemberships
\* the criterion of ExpandAllRDPLocalGroups: neither the start node nor the end
\* node of the relationship has an object ID that ends in the Administrators
\* suffix
NotAdministrators == "NotAdministrators"

\* the criterion that looks at the start node only
SatisfiesStartOnly(t, criterion) ==
    criterion = NotAdministrators => ~(t[1] \in administrators)

\* whether a relationship satisfies one of the additional criteria
Satisfies(t, criterion) ==
    criterion = NotAdministrators =>
        ~(t[1] \in administrators \/ t[2] \in administrators)

\* searchCriteria: the membership kinds (all edges of the model have one) and
\* every additional criterion; the relationships of E that pass
searchCriteria(E) ==
    { t \in E : \A i \in DOMAIN additionalCriteria : Satisfies(t, additionalCriteria[i]) }

\* The graphs of the model: at most MaxEdges membership edges, self-loops
\* included, each ending at a node of kind Group or LocalGroup.
Graphs == SubsetsUpTo(Nodes \X Nodes, MaxEdges)

ResolveStart ==
    /\ edges \in Graphs
    /\ groups \in { g \in SUBSET Nodes : { t[2] : t \in edges } \subseteq g }
    /\ adGroupIDs = groups
    /\ traversalMap = {}
    /\ segQueue = {}
    /\ inflight = {}
    /\ memberships = NewAggregator(Nodes)
    /\ delegateCalls = [n \in Nodes |-> 0]
    /\ pc = "loop"
    /\ delegateErr = <<>>
    /\ resolved = <<>>
    /\ delegateLog = {}
    /\ GraphIdle /\ CallIdle /\ Esc1Idle /\ TemplateIdle /\ OpIdle /\ SyncIdle /\ RdpIdle /\ CompIdle /\ RequestIdle /\ WipeIdle /\ AuthIdle /\ CounterIdle /\ LinkIdle

\* ResolveAllGroupMemberships(ctx, db): no additional criteria
ResolveInit == ResolveStart /\ CriteriaIdle

\* ExpandAllRDPLocalGroups: ResolveAllGroupMemberships(ctx, db, query.Not(...)),
\* on a graph in which any nodes are Administrators groups
ExpandAllRDPLocalGroups ==
    /\ ResolveStart
    /\ additionalCriteria = <<NotAdministrators>>
    /\ administrators \in SUBSET Nodes

\* for _, adGroupID := range adGroupIDs: FetchNodeIDs states no order, so the
\* loop comes to the remaining IDs in any order.
\* if traversalMap.Contains(adGroupID.Uint64()) { continue }
SkipVisitedRoot(adGroupID) ==
    /\ pc = "loop"
    /\ adGroupID \in adGroupIDs
    /\ adGroupID \in traversalMap
    /\ adGroupIDs' = adGroupIDs \ {adGroupID}
    /\ UNCHANGED <<edges, groups, traversalMap, segQueue, inflight,
                   memberships, delegateCalls, pc>>
    /\ UNCHANGED <<delegateErr, resolved, delegateLog>>
    /\ UNCHANGED notResolveVars

\* traversalInst.BreadthFirst(ctx, IDPlan{Root: adGroupID, ...}): the root segment
\* is queued for the workers; the root is not put into traversalMap.
StartBreadthFirst(adGroupID) ==
    /\ pc = "loop"
    /\ adGroupID \in adGroupIDs
    /\ adGroupID \notin traversalMap
    /\ adGroupIDs' = adGroupIDs \ {adGroupID}
    /\ segQueue' = {NewRootIDSegment(adGroupID)}
    /\ pc' = "bfs"
    /\ UNCHANGED <<edges, groups, traversalMap, inflight, memberships, delegateCalls>>
    /\ UNCHANGED <<delegateErr, resolved, delegateLog>>
    /\ UNCHANGED notResolveVars

\* the count of delegate invocations per node is kept up to this number
MaxDelegateCalls == 3

\* A worker receives a segment and enters the delegate: the query is built and
\* its triples are fetched.
DelegateBegin(segment) ==
    /\ pc = "bfs"
    /\ segment \in segQueue
    /\ Cardinality(inflight) < MaximumDatabaseParallelWorkers
    /\ segQueue' = segQueue \ {segment}
    /\ inflight' = inflight \cup
          {[segment |-> segment,
            cursor |-> { t[1] : t \in InboundTriples(searchCriteria(edges), segment) },
            nextSegments |-> {},
            shortcuts |-> {},
            inserted |-> {}]}
    /\ delegateCalls' = [delegateCalls EXCEPT ![SegNode(segment)] =
                            IF @ < MaxDelegateCalls THEN @ + 1 ELSE @]
    /\ UNCHANGED <<edges, groups, adGroupIDs, traversalMap, memberships, pc>>
    /\ UNCHANGED <<delegateErr, resolved, delegateLog>>
    /\ UNCHANGED notResolveVars

\* The traversal imposes no depth bound.  A chain holds the root and then nodes
\* newly inserted into traversalMap, so no run reaches a longer chain than this.
MaxSegmentLen == NumNodes + 1

\* DelegateTriple without the visited check: every fetched start node is
\* descended into (a chain longer than MaxSegmentLen is kept by its last nodes)
DelegateTripleAlwaysDescend(inv, startID) ==
    /\ pc = "bfs"
    /\ inv \in inflight
    /\ startID \in inv.cursor
    /\ traversalMap' = traversalMap \cup {startID}
    /\ inflight' = (inflight \ {inv}) \cup
          {[inv EXCEPT !.cursor = @ \ {startID},
                       !.inserted = @ \cup (traversalMap' \ traversalMap),
                       !.nextSegments = @ \cup
                           {IF Len(inv.segment) < MaxSegmentLen
                            THEN Descend(inv.segment, startID)
                            ELSE Descend(Tail(inv.segment), startID)}]}
    /\ UNCHANGED <<edges, groups, adGroupIDs, segQueue, memberships,
                   delegateCalls, pc>>
    /\ UNCHANGED <<delegateErr, resolved, delegateLog>>
    /\ UNCHANGED notResolveVars

\* DelegateTriple without the else branch: a start node already visited is dropped
DelegateTripleNoShortcut(inv, startID) ==
    /\ pc = "bfs"
    /\ inv \in inflight
    /\ startID \in inv.cursor
    /\ LET next == Descend(inv.segment, startID)
           rest == [inv EXCEPT !.cursor = @ \ {startID}]
       IN  IF startID \notin traversalMap
           THEN /\ traversalMap' = traversalMap \cup {startID}
                /\ inflight' = (inflight \ {inv}) \cup
                      {[rest EXCEPT !.nextSegments = @ \cup {next},
                                    !.inserted = @ \cup (traversalMap' \ traversalMap)]}
           ELSE /\ inflight' = (inflight \ {inv}) \cup {rest}
                /\ UNCHANGED traversalMap
    /\ UNCHANGED <<edges, groups, adGroupIDs, segQueue, memberships, delegateCalls, pc>>
    /\ UNCHANGED <<delegateErr, resolved, delegateLog>>
    /\ UNCHANGED notResolveVars

\* for nextTriple := range cursor.Chan(): CheckedAdd decides between descending
\* and AddShortcut.
DelegateTriple(inv, startID) ==
    /\ pc = "bfs"
    /\ inv \in inflight
    /\ startID \in inv.cursor
    /\ LET next == Descend(inv.segment, startID)
           rest == [inv EXCEPT !.cursor = @ \ {startID}]
       IN  IF startID \notin traversalMap
           THEN /\ Len(next) <= MaxSegmentLen
                /\ traversalMap' = traversalMap \cup {startID}
                /\ inflight' = (inflight \ {inv}) \cup
                      {[rest EXCEPT !.nextSegments = @ \cup {next},
                                    !.inserted = @ \cup (traversalMap' \ traversalMap)]}
                /\ UNCHANGED memberships
           ELSE /\ memberships' = AddShortcut(memberships, next)
                /\ inflight' = (inflight \ {inv}) \cup
                      {[rest EXCEPT !.shortcuts = @ \cup {startID}]}
                /\ UNCHANGED traversalMap
    /\ UNCHANGED <<edges, groups, adGroupIDs, segQueue, delegateCalls, pc>>
    /\ UNCHANGED <<delegateErr, resolved, delegateLog>>
    /\ UNCHANGED notResolveVars

\* if len(nextSegments) == 0 { memberships.AddPath(segment) }; return nextSegments
\* The traversal submits the returned segments to its workers.
DelegateReturn(inv) ==
    /\ pc = "bfs"
    /\ inv \in inflight
    /\ inv.cursor = {}
    /\ \E terminal \in {Cardinality(inv.nextSegments) = 0} :
          /\ memberships' = IF terminal THEN AddPath(memberships, inv.segment)
                                        ELSE memberships
          /\ delegateLog' = delegateLog \cup
                {[segment |-> inv.segment, nextSegments |-> inv.nextSegments,
                  shortcuts |-> inv.shortcuts, inserted |-> inv.inserted,
                  addedPath |-> terminal]}
    /\ segQueue' = segQueue \cup inv.nextSegments
    /\ inflight' = inflight \ {inv}
    /\ UNCHANGED <<edges, groups, adGroupIDs, traversalMap, delegateCalls, pc>>
    /\ UNCHANGED <<delegateErr, resolved>>
    /\ UNCHANGED notResolveVars

\* The delegate's error is logged and the traversal goes on without the segment
DelegateFailContinue(inv) ==
    /\ pc = "bfs"
    /\ inv \in inflight
    /\ delegateErr' = <<inv.segment>>
    /\ inflight' = inflight \ {inv}
    /\ UNCHANGED <<edges, groups, adGroupIDs, traversalMap, segQueue, memberships,
                   delegateCalls, pc, resolved, delegateLog>>
    /\ UNCHANGED notResolveVars

\* The delegate returns an error (the triple fetch or the cursor failed): the
\* traversal is cancelled, BreadthFirst returns the error and
\* ResolveAllGroupMemberships returns nil with it.
DelegateFail(inv) ==
    /\ pc = "bfs"
    /\ inv \in inflight
    /\ delegateErr' = <<inv.segment>>
    /\ resolved' = [aggregator |-> <<>>, err |-> <<inv.segment>>]
    /\ pc' = "failed"
    /\ segQueue' = {}
    /\ inflight' = {}
    /\ UNCHANGED <<edges, groups, adGroupIDs, traversalMap, memberships,
                   delegateCalls, delegateLog>>
    /\ UNCHANGED notResolveVars

\* BreadthFirst returns once every submitted segment has been traversed.
BreadthFirstReturn ==
    /\ pc = "bfs"
    /\ segQueue = {}
    /\ inflight = {}
    /\ pc' = "loop"
    /\ UNCHANGED <<edges, groups, adGroupIDs, traversalMap, segQueue, inflight,
                   memberships, delegateCalls>>
    /\ UNCHANGED <<delegateErr, resolved, delegateLog>>
    /\ UNCHANGED notResolveVars

\* return memberships, nil
ResolveReturn ==
    /\ pc = "loop"
    /\ adGroupIDs = {}
    /\ resolved' = [aggregator |-> memberships, err |-> <<>>]
    /\ pc' = "done"
    /\ UNCHANGED <<delegateErr, delegateLog>>
    /\ UNCHANGED <<edges, groups, adGroupIDs, traversalMap, segQueue,
                   inflight, memberships, delegateCalls>>
    /\ UNCHANGED notResolveVars

ResolveNext ==
    \/ \E adGroupID \in adGroupIDs : SkipVisitedRoot(adGroupID)
    \/ \E adGroupID \in adGroupIDs : StartBreadthFirst(adGroupID)
    \/ \E segment \in segQueue : DelegateBegin(segment)
    \/ \E inv \in inflight : \E startID \in inv.cursor : DelegateTriple(inv, startID)
    \/ \E inv \in inflight : DelegateReturn(inv)
    \/ \E inv \in inflight : DelegateFail(inv)
    \/ BreadthFirstReturn
    \/ ResolveReturn


\* ------------------------------------------------ membership claims
\* nodes with a directed path of one or more edges of E ending at g
RECURSIVE ReachInto(_, _, _)
ReachInto(E, seen, frontier) ==
    LET next == { t[1] : t \in { u \in E : u[2] \in frontier } } \ seen
    IN  IF next = {} THEN seen ELSE ReachInto(E, seen \cup next, next)

Members(E, g) ==
    LET direct == { t[1] : t \in { u \in E : u[2] = g } }
    IN  ReachInto(E, direct, direct)

NoSelfLoops(E) == { t \in E : t[1] # t[2] }

NonAdministratorEdges ==
    { t \in edges : t[1] \notin administrators /\ t[2] \notin administrators }

CycleABC == {<<1, 2>>, <<2, 3>>, <<3, 1>>}

\* The chains a traversal from segment ends in when every fetched start node is
\* descended into: a chain ends where the query fetches nothing, and a chain
\* through a cycle is followed to MaxSegmentLen nodes.
RECURSIVE TerminalChains(_, _)
TerminalChains(E, segment) ==
    LET triples == InboundTriples(E, segment)
    IN  IF triples = {} \/ Len(segment) >= MaxSegmentLen
        THEN {segment}
        ELSE UNION { TerminalChains(E, Descend(segment, t[1])) : t \in triples }

\* AddPath called for every chain of a set
RECURSIVE AddPaths(_, _)
AddPaths(agg, chains) ==
    IF chains = {} THEN agg
    ELSE LET chain == CHOOSE c \in chains : TRUE
         IN  AddPaths(AddPath(agg, chain), chains \ {chain})

\* the aggregator built through AddPath alone, every group being a root
AddPathOnly(E, roots) ==
    AddPaths(NewAggregator(Nodes),
             UNION { TerminalChains(E, NewRootIDSegment(r)) : r \in roots })

C3_CycleMembership ==
    (pc = "done" /\ edges = CycleABC) => AggCardinality(memberships, 3) = {1, 2}


\* ------------------------------------------------ CalculateCrossProductNodeSets
CrossNodes == 1..CrossNumNodes

\* Object IDs ending in the well-known SIDs S-1-5-11 and S-1-1-0
AuthenticatedUsers == 1
Everyone == 2

Xor(a, b) == (a \ b) \cup (b \ a)

\* firstDegreeSet of one slice
FirstDegreeSet(nodeSlice) == nodeSlice

\* unrolledSet of one slice: every entity's ID, and the expansion of every entity
\* whose Kinds hold Group or LocalGroup
UnrolledSet(kinds, agg, nodeSlice) ==
    nodeSlice \cup UNION { AggCardinality(agg, e) : e \in nodeSlice \cap kinds }

\* hasSpecialGroup of one slice
HasSpecialGroup(special, kinds, agg, nodeSlice) ==
    \E specialGroup \in special : specialGroup \in UnrolledSet(kinds, agg, nodeSlice)

\* positions of the slices appended to unrolledSets / firstDegreeSets, in order
RECURSIVE KeptSlices(_, _, _, _, _)
KeptSlices(special, kinds, agg, slices, i) ==
    IF i > Len(slices) THEN <<>>
    ELSE IF HasSpecialGroup(special, kinds, agg, slices[i])
         THEN KeptSlices(special, kinds, agg, slices, i + 1)
         ELSE <<i>> \o KeptSlices(special, kinds, agg, slices, i + 1)

\* checkSet.Or(unrolledSets[1]); for unrolledSets[2:] checkSet.And(unrolledSet)
RECURSIVE AndFrom(_, _, _)
AndFrom(unrolledSets, i, acc) ==
    IF i > Len(unrolledSets) THEN acc
    ELSE AndFrom(unrolledSets, i + 1, acc \cap unrolledSets[i])

CheckSet(unrolledSets) == AndFrom(unrolledSets, 3, unrolledSets[2])

\* tempMap: the IDs of unrolledRefSet whose expansion is not empty, with its size
TempMap(agg, unrolledRefSet) ==
    [id \in { n \in unrolledRefSet : Cardinality(AggCardinality(agg, n)) > 0 } |->
        Cardinality(AggCardinality(agg, id))]

\* The orders sort.Slice can leave the keys of tempMap in: ascending in the saved
\* cardinality; keys of equal cardinality in any order (the map is iterated in
\* no fixed order and the sort is not stable).
SortedKeys(tempMap) ==
    { keys \in Perms(DOMAIN tempMap) :
        \A i, j \in 1..Len(keys) : i < j => ~(tempMap[keys[j]] < tempMap[keys[i]]) }

\* for _, groupId := range keys { ... }: the state is <<unrolledRefSet, resultEntities>>
RECURSIVE FoldGroups(_, _, _, _, _)
FoldGroups(agg, checkSet, keys, i, st) ==
    IF i > Len(keys) THEN st
    ELSE LET groupId == keys[i]
             ref == st[1]
             res == st[2]
         IN  IF groupId \notin ref
             THEN FoldGroups(agg, checkSet, keys, i + 1, st)
             ELSE IF groupId \in checkSet
                  THEN FoldGroups(agg, checkSet, keys, i + 1,
                          <<Xor(ref \ {groupId}, AggCardinality(agg, groupId)),
                            res \cup {groupId}>>)
                  ELSE FoldGroups(agg, checkSet, keys, i + 1, <<ref \ {groupId}, res>>)

\* the pass over firstDegreeSets[0] without the expansion of the IDs that are
\* not in checkSet
UnrolledRefSetUnexpanded(agg, checkSet, firstDegree) == {}

\* unrolledRefSet after the pass over firstDegreeSets[0]
UnrolledRefSet(agg, checkSet, firstDegree) ==
    UNION { AggCardinality(agg, id) : id \in firstDegree \ checkSet }

\* The part of the function after the pass over the keys, with the remainder
\* added whether or not checkSet holds it
CrossProductTailUnchecked(agg, checkSet, firstDegree, keys) ==
    LET st == FoldGroups(agg, checkSet, keys, 1,
                    <<UnrolledRefSet(agg, checkSet, firstDegree),
                      firstDegree \cap checkSet>>)
    IN  st[2] \cup st[1]

\* The part of the function after the checkSet is built, for one order of keys.
CrossProductTail(agg, checkSet, firstDegree, keys) ==
    LET st == FoldGroups(agg, checkSet, keys, 1,
                    <<UnrolledRefSet(agg, checkSet, firstDegree),
                      firstDegree \cap checkSet>>)
    IN  st[2] \cup (st[1] \cap checkSet)

\* len(firstDegreeSets) == 0 returning the first nodeset only
AllSentinelResultFirstOnly(slices) == slices[1]

\* len(firstDegreeSets) == 0: every entity of every nodeset
AllSentinelResult(slices) == UNION { slices[i] : i \in 1..Len(slices) }

\* len(firstDegreeSets) == 1 returning the unrolled set
OneRestrictiveResultUnrolled(firstDegreeSets, unrolledSets) == unrolledSets[1]

\* len(firstDegreeSets) == 1: return firstDegreeSets[0]
OneRestrictiveResult(firstDegreeSets, unrolledSets) == firstDegreeSets[1]

\* The sets CalculateCrossProductNodeSets can return: one per order of keys.
CalculateCrossProductNodeSets(special, kinds, agg, slices) ==
    IF Len(slices) < 2 THEN {{}}
    ELSE LET kept == KeptSlices(special, kinds, agg, slices, 1)
             firstDegreeSets == [k \in 1..Len(kept) |-> FirstDegreeSet(slices[kept[k]])]
             unrolledSets == [k \in 1..Len(kept) |-> UnrolledSet(kinds, agg, slices[kept[k]])]
         IN  IF Len(firstDegreeSets) = 0
             THEN { AllSentinelResult(slices) }
             ELSE IF Len(firstDegreeSets) = 1
                  THEN { OneRestrictiveResult(firstDegreeSets, unrolledSets) }
                  ELSE LET checkSet == CheckSet(unrolledSets)
                           ref == UnrolledRefSet(agg, checkSet, firstDegreeSets[1])
                       IN  { CrossProductTail(agg, checkSet, firstDegreeSets[1], keys) :
                                keys \in SortedKeys(TempMap(agg, ref)) }

\* The aggregator ResolveAllGroupMemberships returns for the membership edges E
\* (C1): every group maps to the nodes with a path of membership edges into it.
ExpandedAggregator(ids, E) ==
    [sets |-> [n \in ids |-> Members(NoSelfLoops(E), n)],
     shortcuts |-> [n \in ids |-> {}]]

CrossGraphs == SubsetsUpTo({ t \in CrossNodes \X CrossNodes : t[1] # t[2] }, CrossMaxEdges)

\* sequences of n slices holding at most k entities together
RECURSIVE SliceSeqs(_, _)
SliceSeqs(n, k) ==
    IF n = 0 THEN {<<>>}
    ELSE UNION { { <<first>> \o rest : rest \in SliceSeqs(n - 1, k - Cardinality(first)) } :
                    first \in SubsetsUpTo(CrossNodes, k) }

CrossInit ==
    /\ \E E \in CrossGraphs :
          /\ groupExpansions = ExpandedAggregator(CrossNodes, E)
          /\ specialGroups \in SUBSET {AuthenticatedUsers, Everyone}
          /\ groupKinds = { t[2] : t \in E } \cup specialGroups
    /\ nodeSlices \in UNION { SliceSeqs(n, MaxEntities) : n \in 1..MaxSlices }
    /\ resultEntities = {}
    /\ cpPc = "call"
    /\ ResolveIdle /\ Esc1Idle /\ TemplateIdle /\ OpIdle /\ SyncIdle /\ RdpIdle /\ CompIdle /\ RequestIdle /\ WipeIdle /\ AuthIdle /\ CriteriaIdle /\ CounterIdle /\ LinkIdle

CrossCall ==
    /\ cpPc = "call"
    /\ resultEntities' \in
          CalculateCrossProductNodeSets(specialGroups, groupKinds, groupExpansions, nodeSlices)
    /\ cpPc' = "returned"
    /\ UNCHANGED <<groupKinds, groupExpansions, specialGroups, nodeSlices>>
    /\ UNCHANGED notCrossVars

CrossNext == CrossCall

\* ------------------------------------------------ cross product claims
\* own IDs plus the transitive membership of the groups among them
Unrolled(i) == UnrolledSet(groupKinds, groupExpansions, nodeSlices[i])

\* the slices whose unrolled set holds no sentinel group
SentinelFree == { i \in 1..Len(nodeSlices) : Unrolled(i) \cap specialGroups = {} }

\* C4: with at least two sentinel-free slices, every returned ID lies in the
\* unrolled set of every sentinel-free slice; for slice1 = {G}, G holding X and Y,
\* and slice2 = {X}, the result is exactly {X}.
C4_InEveryRestrictiveSlice ==
    (cpPc = "returned" /\ Cardinality(SentinelFree) >= 2) =>
        /\ \A i \in SentinelFree : resultEntities \subseteq Unrolled(i)
        /\ \A g, x, y \in CrossNodes :
              ( /\ Cardinality({g, x, y}) = 3
                /\ nodeSlices = <<{g}, {x}>>
                /\ g \in groupKinds
                /\ AggCardinality(groupExpansions, g) = {x, y}
                /\ AggCardinality(groupExpansions, x) = {}
                /\ AggCardinality(groupExpansions, y) = {} )
              => resultEntities = {x}

\* the call on slice1 = {G}, G = {X, Y}, slice2 = {X} has returned
C4_Witness ==
    /\ cpPc = "returned"
    /\ nodeSlices = <<{3}, {4}>>
    /\ 3 \in groupKinds
    /\ AggCardinality(groupExpansions, 3) = {4, 1}
    /\ AggCardinality(groupExpansions, 4) = {}
    /\ AggCardinality(groupExpansions, 1) = {}
    /\ SentinelFree = {1, 2}
    /\ resultEntities = {4}

CommonPrincipals == { p \in CrossNodes : \A i \in SentinelFree : p \in Unrolled(i) }

SwappedResults ==
    CalculateCrossProductNodeSets(specialGroups, groupKinds, groupExpansions,
                                  <<nodeSlices[2], nodeSlices[1]>>)

\* C34: for two input slices, the ID set CalculateCrossProductNodeSets returns
\* is one it returns for the two slices in the opposite order (with ties
\* between keys broken in some way).
C34_SameForSwappedSlices ==
    (cpPc = "returned" /\ Len(nodeSlices) = 2) => resultEntities \in SwappedResults

\* C14: CalculateCrossProductNodeSets returns the same ID set for the same inputs
\* whatever the iteration order of tempMap and whatever order the sort gives to
\* groups of equal member count: the returned set is the only one the call can
\* return, so a second run of the deriver submits the same jobs.
C14_SameResultInEveryOrder ==
    cpPc = "returned" =>
        CalculateCrossProductNodeSets(specialGroups, groupKinds, groupExpansions,
                                      nodeSlices) = {resultEntities}

\* C16: during one run no group is expanded twice: for every node ID the delegate
\* runs its membership query on a segment for that node at most once, as a
\* root or descended into.
C16_NoGroupExpandedTwice == \A n \in Nodes : delegateCalls[n] <= 1

\* C20: if a delegate invocation fails, the BFS of that root stops and
\* ResolveAllGroupMemberships returns that error with no aggregator; the failed
\* query is not retried and the BFS of no later root is started.
C20_DelegateErrorAborts ==
    /\ [](delegateErr # <<>> =>
            /\ pc = "failed"
            /\ resolved = [aggregator |-> <<>>, err |-> delegateErr]
            /\ segQueue = {}
            /\ inflight = {})
    /\ [][pc = "failed" =>
            /\ pc' = "failed"
            /\ delegateCalls' = delegateCalls
            /\ adGroupIDs' = adGroupIDs
            /\ resolved' = resolved]_vars

\* a delegate failed on a segment below the root while a root was still to come
C20_Witness ==
    /\ pc = "failed"
    /\ Len(delegateErr[1]) >= 2
    /\ adGroupIDs # {}
    /\ \E n \in adGroupIDs : n \notin traversalMap

\* C2: ResolveAllGroupMemberships terminates on every finite graph, cycles
\* included: every BreadthFirst call returns and the function returns.
C2_Terminates == <>(pc \in {"done", "failed"})

\* a run over the three-group cycle has returned, each group having been queried
C2_Witness ==
    /\ pc = "done"
    /\ edges = CycleABC
    /\ \A n \in Nodes : delegateCalls[n] >= 1

\* ------------------------------------------------ isCertTemplateValidForEsc1
\* largest schema version and authorized-signatures count of the model
MaxSchemaVersion == 2
MaxAuthorizedSignatures == 1

\* A property of a node is <<>> when the node does not carry it (or carries a
\* value of another type) and <<v>> when it carries the value v.
Has(property) == Len(property) = 1

Val(property) == property[1]

BoolProperty == {<<>>, <<TRUE>>, <<FALSE>>}

\* the properties a certificate template node can carry
TemplateProperties ==
    [RequiresManagerApproval : BoolProperty,
     AuthenticationEnabled : BoolProperty,
     EnrolleeSuppliesSubject : BoolProperty,
     SchemaVersion : {<<>>} \cup { <<v>> : v \in 0..MaxSchemaVersion },
     AuthorizedSignatures : {<<>>} \cup { <<v>> : v \in 0..MaxAuthorizedSignatures }]

\* the (bool, error) pairs the function returns
Result(valid, err) == [valid |-> valid, err |-> err]

\* Each property is read when the chain of else-ifs comes to it; a read that
\* fails returns (false, err).
isCertTemplateValidForEsc1(props) ==
    IF ~Has(props.RequiresManagerApproval) THEN Result(FALSE, TRUE)
    ELSE IF Val(props.RequiresManagerApproval) THEN Result(FALSE, FALSE)
    ELSE IF ~Has(props.AuthenticationEnabled) THEN Result(FALSE, TRUE)
    ELSE IF ~Val(props.AuthenticationEnabled) THEN Result(FALSE, FALSE)
    ELSE IF ~Has(props.EnrolleeSuppliesSubject) THEN Result(FALSE, TRUE)
    ELSE IF ~Val(props.EnrolleeSuppliesSubject) THEN Result(FALSE, FALSE)
    ELSE IF ~Has(props.SchemaVersion) THEN Result(FALSE, TRUE)
    ELSE IF ~Has(props.AuthorizedSignatures) THEN Result(FALSE, TRUE)
    ELSE IF Val(props.SchemaVersion) > 1 /\ Val(props.AuthorizedSignatures) > 0
         THEN Result(FALSE, FALSE)
    ELSE Result(TRUE, FALSE)

TemplateInit ==
    /\ ct \in TemplateProperties
    /\ validResult = <<>>
    /\ ResolveIdle /\ GraphIdle /\ CallIdle /\ Esc1Idle /\ OpIdle /\ SyncIdle /\ RdpIdle /\ CompIdle /\ RequestIdle /\ WipeIdle /\ AuthIdle /\ CriteriaIdle /\ CounterIdle /\ LinkIdle

ValidateTemplate ==
    /\ validResult = <<>>
    /\ validResult' = isCertTemplateValidForEsc1(ct)
    /\ UNCHANGED ct
    /\ UNCHANGED notTemplateVars

TemplateNext == ValidateTemplate

\* the condition the specification gives for a template to be accepted
Esc1Predicate(props) ==
    /\ props.RequiresManagerApproval = <<FALSE>>
    /\ props.AuthenticationEnabled = <<TRUE>>
    /\ props.EnrolleeSuppliesSubject = <<TRUE>>
    /\ Has(props.SchemaVersion)
    /\ \/ Val(props.SchemaVersion) <= 1
       \/ /\ Val(props.SchemaVersion) > 1
          /\ props.AuthorizedSignatures = <<0>>

\* C8: a template is accepted exactly when manager approval is not required,
\* authentication is enabled, enrollee-supplies-subject is enabled, and the
\* schema version is <= 1, or is > 1 with authorized signatures equal to 0;
\* for a schema version <= 1 the authorized-signatures value plays no part.
C8_AcceptsExactly ==
    validResult # <<>> => (validResult.valid <=> Esc1Predicate(ct))

\* The condition ADCSESC1Path1Pattern puts on the certificate template at the
\* end of its second step; a comparison with a property the node does not
\* carry is not satisfied.
ADCSESC1Path1PatternTemplate(props) ==
    \/ /\ props.RequiresManagerApproval = <<FALSE>>
       /\ Has(props.SchemaVersion) /\ Val(props.SchemaVersion) > 1
       /\ props.AuthorizedSignatures = <<0>>
       /\ props.AuthenticationEnabled = <<TRUE>>
       /\ props.EnrolleeSuppliesSubject = <<TRUE>>
    \/ /\ props.RequiresManagerApproval = <<FALSE>>
       /\ props.SchemaVersion = <<1>>
       /\ props.AuthenticationEnabled = <<TRUE>>
       /\ props.EnrolleeSuppliesSubject = <<TRUE>>

\* C35: a certificate template is accepted by isCertTemplateValidForEsc1
\* exactly when it satisfies the template condition of ADCSESC1Path1Pattern.
C35_AcceptedExactlyWhenMatched ==
    validResult # <<>> => (validResult.valid <=> ADCSESC1Path1PatternTemplate(ct))

\* ------------------------------------------------ PostADCSESC1
Esc1NumNodes == 3
Esc1MaxEdges == 2
MaxTemplates == 2
MaxTemplateEnrollers == 1
MaxCAEnrollers == 2
MaxDomains == 2

\* principals: users, computers and groups
Esc1Nodes == 1..Esc1NumNodes

\* domain nodes
Domains == (Esc1NumNodes + 1)..(Esc1NumNodes + MaxDomains)

\* ad.ADCSESC1
ADCSESC1 == "ADCSESC1"

\* analysis.CreatePostRelationshipJob
CreatePostRelationshipJob(fromID, toID, kind) ==
    [FromID |-> fromID, ToID |-> toID, Kind |-> kind]

\* the job with the two ends exchanged
Esc1JobReversed(value, domain) == CreatePostRelationshipJob(domain, value, ADCSESC1)

\* the job submitted for one result and one target domain
Esc1Job(value, domain) == CreatePostRelationshipJob(value, domain, ADCSESC1)

\* the loop over the templates without the validity test
Esc1TemplateResultsUnvalidated(special, kinds, agg, certTemplate, enrollers) ==
    CalculateCrossProductNodeSets(special, kinds, agg,
                                  <<certTemplate.enrollers, enrollers>>)

\* One pass of the loop body: what the pass can OR into results.
\* certTemplate.enrollers is cache.GetCertTemplateEnrollers(certTemplate.ID).
Esc1TemplateResults(special, kinds, agg, certTemplate, enrollers) ==
    LET validity == isCertTemplateValidForEsc1(certTemplate.Properties)
    IN  IF validity.err THEN {{}}
        ELSE IF ~validity.valid THEN {{}}
        ELSE CalculateCrossProductNodeSets(special, kinds, agg,
                                           <<certTemplate.enrollers, enrollers>>)

\* results after the loop over publishedCertTemplates[i..]: one set per choice
\* of what each call of CalculateCrossProductNodeSets returns
RECURSIVE Esc1Results(_, _, _, _, _, _)
Esc1Results(special, kinds, agg, templates, enrollers, i) ==
    IF i > Len(templates) THEN {{}}
    ELSE { r \cup rest :
             r \in Esc1TemplateResults(special, kinds, agg, templates[i], enrollers),
             rest \in Esc1Results(special, kinds, agg, templates, enrollers, i + 1) }

\* the template properties of the model's published templates: manager approval
\* off, authentication and enrollee-supplies-subject on, schema version 2
PublishedProperties ==
    { props \in TemplateProperties :
        /\ props.RequiresManagerApproval = <<FALSE>>
        /\ props.AuthenticationEnabled = <<TRUE>>
        /\ props.EnrolleeSuppliesSubject = <<TRUE>>
        /\ props.SchemaVersion = <<MaxSchemaVersion>> }

PublishedTemplates ==
    [Properties : PublishedProperties,
     enrollers : SubsetsUpTo(Esc1Nodes, MaxTemplateEnrollers)]

Esc1Graphs == SubsetsUpTo({ t \in Esc1Nodes \X Esc1Nodes : t[1] # t[2] }, Esc1MaxEdges)

Esc1Init ==
    /\ \E E \in Esc1Graphs :
          /\ groupExpansions = ExpandedAggregator(Esc1Nodes, E)
          /\ specialGroups \in SUBSET {AuthenticatedUsers}
          /\ groupKinds = { t[2] : t \in E } \cup specialGroups
    /\ publishedCertTemplates \in
          UNION { [1..n -> PublishedTemplates] : n \in 0..MaxTemplates }
    /\ ecaEnrollers \in SubsetsUpTo(Esc1Nodes, MaxCAEnrollers)
    /\ targetDomains \in { (Esc1NumNodes + 1)..(Esc1NumNodes + n) : n \in 0..MaxDomains }
    /\ outC = EmptyBag
    /\ esc1Pc = "call"
    /\ ResolveIdle /\ CallIdle /\ TemplateIdle /\ OpIdle /\ SyncIdle /\ RdpIdle /\ CompIdle /\ RequestIdle /\ WipeIdle /\ AuthIdle /\ CriteriaIdle /\ CounterIdle /\ LinkIdle

PostADCSESC1 ==
    /\ esc1Pc = "call"
    /\ IF Len(publishedCertTemplates) = 0
       THEN outC' = EmptyBag
       ELSE \E results \in Esc1Results(specialGroups, groupKinds, groupExpansions,
                                       publishedCertTemplates, ecaEnrollers, 1) :
               outC' = SetToBag({ Esc1Job(value, domain) :
                                     value \in results, domain \in targetDomains })
    /\ esc1Pc' = "returned"
    /\ UNCHANGED <<graphVars, publishedCertTemplates, ecaEnrollers, targetDomains>>
    /\ UNCHANGED notEsc1Vars

Esc1Next == PostADCSESC1

\* ------------------------------------------------ PostADCSESC1 claims
\* u is no group and the graph holds the one membership u in g; g is the one enroller of the one
\* published template, which is valid; d is the one target domain
MinimalEsc1Graph(u, g, d) ==
    /\ u # g
    /\ u \notin groupKinds
    /\ Len(publishedCertTemplates) = 1
    /\ isCertTemplateValidForEsc1(publishedCertTemplates[1].Properties).valid
    /\ publishedCertTemplates[1].enrollers = {g}
    /\ g \in groupKinds
    /\ \A n \in Esc1Nodes :
          AggCardinality(groupExpansions, n) = IF n = g THEN {u} ELSE {}
    /\ targetDomains = {d}

\* the bag holding the one job from -> to of kind ADCSESC1
OneJob(from, to) == SetToBag({[FromID |-> from, ToID |-> to, Kind |-> "ADCSESC1"]})

\* C7 as stated: one User in a Group that holds enroll rights on a valid template
\* published to the CA: exactly one job is emitted, from the User to the Domain.
C7_UserToDomain ==
    esc1Pc = "returned" =>
        \A u, g \in Esc1Nodes : \A d \in Domains :
            MinimalEsc1Graph(u, g, d) => outC = OneJob(u, d)

\* C7 as amended: on that graph exactly one job User -> Domain is emitted when the
\* User is the one enroller of the Enterprise CA; when the Group is, the one job
\* is Group -> Domain; when the CA has no enroller, no job is emitted.
C7_ByCAEnroller ==
    esc1Pc = "returned" =>
        \A u, g \in Esc1Nodes : \A d \in Domains :
            MinimalEsc1Graph(u, g, d) =>
                /\ ecaEnrollers = {u} => outC = OneJob(u, d)
                /\ ecaEnrollers = {g} => outC = OneJob(g, d)
                /\ ecaEnrollers = {} => outC = EmptyBag

\* the call on the minimal graph with the User enrolled on the CA has returned
C7_Witness ==
    /\ esc1Pc = "returned"
    /\ MinimalEsc1Graph(3, 2, Esc1NumNodes + 1)
    /\ ecaEnrollers = {3}
    /\ outC = OneJob(3, Esc1NumNodes + 1)

\* positions of the published templates the validity function accepts
ValidTemplates ==
    { i \in DOMAIN publishedCertTemplates :
        isCertTemplateValidForEsc1(publishedCertTemplates[i].Properties).valid }

\* C9: the jobs submitted are exactly (p, d, ADCSESC1) for p in the union, over
\* the valid published templates, of the cross product of the template's
\* enrollers and the CA's enrollers, and d in targetDomains; none is submitted
\* when the CA has no published template.
C9_JobsAreCrossProductTimesDomains ==
    esc1Pc = "returned" =>
        /\ \E f \in [ValidTemplates -> SUBSET Esc1Nodes] :
              /\ \A i \in ValidTemplates :
                    f[i] \in CalculateCrossProductNodeSets(
                                 specialGroups, groupKinds, groupExpansions,
                                 <<publishedCertTemplates[i].enrollers, ecaEnrollers>>)
              /\ outC = SetToBag({ [FromID |-> p, ToID |-> d, Kind |-> "ADCSESC1"] :
                                     p \in UNION { f[i] : i \in ValidTemplates },
                                     d \in targetDomains })
        /\ Len(publishedCertTemplates) = 0 => outC = EmptyBag

\* two published templates, one accepted and one not, whose enrollers both
\* enroll on the CA; two target domains; the jobs come from the accepted one only
C9_Witness ==
    /\ esc1Pc = "returned"
    /\ Len(publishedCertTemplates) = 2
    /\ ValidTemplates = {1}
    /\ publishedCertTemplates[1].enrollers = {2}
    /\ publishedCertTemplates[2].enrollers = {3}
    /\ ecaEnrollers = {2, 3}
    /\ groupExpansions = ExpandedAggregator(Esc1Nodes, {})
    /\ Cardinality(targetDomains) = 2
    /\ BagToSet(outC) = { [FromID |-> 2, ToID |-> d, Kind |-> "ADCSESC1"] : d \in Domains }

\* ------------------------------------------------ PostLocalGroups on its operation
MaxComputers == 2
MaxJobsPerReader == 2
JobChannelCapacity == 1

\* SubmitReader calls per computer: the DCOM, PSRemote, RDP and admin readers
ReadersPerComputer == 4

\* NumReaders of the operation NewPostRelationshipOperation starts
NumReaders == MaximumDatabaseParallelWorkers

\* reader workers that are running a reader job
BusyReaders ==
    running.fetch + running.emit[0] +
        LET RECURSIVE Sum(_)
            Sum(r) == IF r = 0 THEN 0 ELSE running.emit[r] + Sum(r - 1)
        IN  Sum(MaxJobsPerReader)

OpInit ==
    /\ numComputers \in 0..MaxComputers
    /\ submitted = 0
    /\ running = [fetch |-> 0, emit |-> [r \in 0..MaxJobsPerReader |-> 0]]
    /\ jobC = 0
    /\ opErrors = 0
    /\ opPc = "fetch"
    /\ ResolveIdle /\ GraphIdle /\ CallIdle /\ Esc1Idle /\ TemplateIdle /\ SyncIdle /\ RdpIdle /\ CompIdle /\ RequestIdle /\ WipeIdle /\ AuthIdle /\ CriteriaIdle /\ CounterIdle /\ LinkIdle

\* computers, err := FetchComputers(ctx, db); err == nil: the operation is started
FetchComputers ==
    /\ opPc = "fetch"
    /\ opPc' = "submit"
    /\ UNCHANGED <<numComputers, submitted, running, jobC, opErrors>>
    /\ UNCHANGED notOpVars

\* err != nil: PostLocalGroups returns the error, no operation is started
FetchComputersFail ==
    /\ opPc = "fetch"
    /\ opPc' = "failed"
    /\ UNCHANGED <<numComputers, submitted, running, jobC, opErrors>>
    /\ UNCHANGED notOpVars

\* SubmitReader handing the job to a worker of its own whatever number is busy
SubmitReaderUnbounded ==
    /\ opPc = "submit"
    /\ submitted < ReadersPerComputer * numComputers
    /\ submitted' = submitted + 1
    /\ running' = [running EXCEPT !.fetch = @ + 1]
    /\ UNCHANGED <<numComputers, jobC, opErrors, opPc>>
    /\ UNCHANGED notOpVars

\* operation.Operation.SubmitReader(...) returns: a reader worker that is free
\* has received the reader job from the job channel.
SubmitReader ==
    /\ opPc = "submit"
    /\ submitted < ReadersPerComputer * numComputers
    /\ BusyReaders < NumReaders
    /\ submitted' = submitted + 1
    /\ running' = [running EXCEPT !.fetch = @ + 1]
    /\ UNCHANGED <<numComputers, jobC, opErrors, opPc>>
    /\ UNCHANGED notOpVars

\* operation.Operation.SubmitReader(...) returns an error (the context of the
\* operation is cancelled before a worker takes the job): PostLocalGroups
\* returns the wrapped error at once.
SubmitReaderFail ==
    /\ opPc = "submit"
    /\ submitted < ReadersPerComputer * numComputers
    /\ opPc' = "abandoned"
    /\ UNCHANGED <<numComputers, submitted, running, jobC, opErrors>>
    /\ UNCHANGED notOpVars

\* FetchLocalGroupBitmapForComputer returns entities: the reader has that many
\* jobs to emit
ReaderFetch ==
    /\ running.fetch > 0
    /\ \E r \in 0..MaxJobsPerReader :
          running' = [running EXCEPT !.fetch = @ - 1, !.emit[r] = @ + 1]
    /\ UNCHANGED <<numComputers, submitted, jobC, opErrors, opPc>>
    /\ UNCHANGED notOpVars

\* FetchLocalGroupBitmapForComputer fails: the reader returns the error, which
\* the operation collects; the worker is free again.
ReaderFetchFail ==
    /\ running.fetch > 0
    /\ running' = [running EXCEPT !.fetch = @ - 1]
    /\ opErrors' = opErrors + 1
    /\ UNCHANGED <<numComputers, submitted, jobC, opPc>>
    /\ UNCHANGED notOpVars

\* channels.Submit(ctx, outC, nextJob): blocks while the channel is full
ReaderEmit(r) ==
    /\ r > 0
    /\ running.emit[r] > 0
    /\ jobC < JobChannelCapacity
    /\ jobC' = jobC + 1
    /\ running' = [running EXCEPT !.emit[r] = @ - 1, !.emit[r - 1] = @ + 1]
    /\ UNCHANGED <<numComputers, submitted, opErrors, opPc>>
    /\ UNCHANGED notOpVars

\* the reader returns nil after its last job: the worker is free again
ReaderReturn ==
    /\ running.emit[0] > 0
    /\ running' = [running EXCEPT !.emit[0] = @ - 1]
    /\ UNCHANGED <<numComputers, submitted, jobC, opErrors, opPc>>
    /\ UNCHANGED notOpVars

\* the writer receives one job from the channel
WriterDrain ==
    /\ jobC > 0
    /\ jobC' = jobC - 1
    /\ UNCHANGED <<numComputers, submitted, running, opErrors, opPc>>
    /\ UNCHANGED notOpVars

\* PostLocalGroups returning after the loop without calling Done
PostLocalGroupsReturnWithoutDone ==
    /\ opPc = "submit"
    /\ submitted = ReadersPerComputer * numComputers
    /\ opPc' = "exited"
    /\ UNCHANGED <<numComputers, submitted, running, jobC, opErrors>>
    /\ UNCHANGED notOpVars

\* return &operation.Stats, operation.Done(): after the loop over the computers
\* Done is called; it closes the reader job channel.
PostLocalGroupsCallDone ==
    /\ opPc = "submit"
    /\ submitted = ReadersPerComputer * numComputers
    /\ opPc' = "done"
    /\ UNCHANGED <<numComputers, submitted, running, jobC, opErrors>>
    /\ UNCHANGED notOpVars

\* Done: every reader worker has exited; the output channel is closed
DoneReadersExited ==
    /\ opPc = "done"
    /\ BusyReaders = 0
    /\ opPc' = "closing"
    /\ UNCHANGED <<numComputers, submitted, running, jobC, opErrors>>
    /\ UNCHANGED notOpVars

\* Done: the writer has drained the closed channel and exited; Done returns
DoneReturn ==
    /\ opPc = "closing"
    /\ jobC = 0
    /\ opPc' = "returned"
    /\ UNCHANGED <<numComputers, submitted, running, jobC, opErrors>>
    /\ UNCHANGED notOpVars

\* the goroutine that runs PostLocalGroups
PostLocalGroups ==
    \/ FetchComputers
    \/ FetchComputersFail
    \/ SubmitReader
    \/ PostLocalGroupsCallDone
    \/ DoneReadersExited
    \/ DoneReturn

\* the reader workers
ReaderWorkers ==
    \/ ReaderFetch
    \/ ReaderFetchFail
    \/ \E r \in 1..MaxJobsPerReader : ReaderEmit(r)
    \/ ReaderReturn

OpNext ==
    \/ FetchComputers
    \/ FetchComputersFail
    \/ SubmitReader
    \/ PostLocalGroupsCallDone
    \/ DoneReadersExited
    \/ DoneReturn
    \/ ReaderFetch
    \/ ReaderFetchFail
    \/ \E r \in 1..MaxJobsPerReader : ReaderEmit(r)
    \/ ReaderReturn
    \/ WriterDrain

\* PostLocalGroups on an operation whose context can be cancelled
OpCancelNext == OpNext \/ SubmitReaderFail

\* C10: submitting more reader jobs than NumReaders never deadlocks: once the
\* operation is started, every one of the four SubmitReader calls per computer
\* returns and Done returns, given that reader jobs terminate and the writer
\* keeps draining the channel.
C10_NoDeadlock ==
    (opPc = "submit") ~>
        (opPc = "returned" /\ submitted = ReadersPerComputer * numComputers)

\* Done has returned after more SubmitReader calls than there are reader workers
C10_Witness ==
    /\ opPc = "returned"
    /\ submitted = ReadersPerComputer * MaxComputers
    /\ submitted > NumReaders
    /\ opErrors > 0

C37_DoneBeforeReturn ==
    opPc \in {"returned", "abandoned"} => (BusyReaders = 0 /\ jobC = 0)

\* ------------------------------------ PostDCSync and PostSyncLAPSPassword
SyncNumNodes == 2
SyncMaxEdges == 1
MaxSyncDomains == 2
MaxSyncEntities == 1
SyncChannelCapacity == 1

\* the principals of the graph the two functions run on
SyncNodes == 1..SyncNumNodes

\* the IDs of the domain nodes fetchCollectedDomainNodes can return
SyncDomains == (SyncNumNodes + 1)..(SyncNumNodes + MaxSyncDomains)

\* the computer with HasLAPS whose DomainSID is the DomainSID of the domain
LAPSComputer(domain) == domain + MaxSyncDomains

DCSync == "DCSync"
SyncLAPSPassword == "SyncLAPSPassword"

SyncGraphs == SubsetsUpTo({ t \in SyncNodes \X SyncNodes : t[1] # t[2] }, SyncMaxEdges)

\* what the graph answers about one collected domain: the start nodes of its
\* GetChanges edges, those of its GetChangesAll (PostDCSync) or
\* GetChangesInFilteredSet (PostSyncLAPSPassword) edges, whether the node has
\* the DomainSID property
DomainAnswers(kind) ==
    [getChanges : SubsetsUpTo(SyncNodes, MaxSyncEntities),
     getChangesOther : SubsetsUpTo(SyncNodes, MaxSyncEntities),
     hasDomainSID : IF kind = SyncLAPSPassword THEN BOOLEAN ELSE {TRUE}]

\* a reader job that has not been submitted
NewReader == [pc |-> "unsubmitted", toEmit |-> {}, syncers |-> {},
              queryFailed |-> FALSE, ret |-> "none"]

\* the error a reader job of a domain returned, the error of a failed write
ReaderError(domain) == <<"reader", domain>>
WriterError(job) == <<"writer", job.ToID>>

RECURSIVE BagOfSeq(_)
BagOfSeq(q) == IF q = <<>> THEN EmptyBag ELSE SetToBag({Head(q)}) (+) BagOfSeq(Tail(q))

SyncInit ==
    /\ syncKind \in {DCSync, SyncLAPSPassword}
    /\ \E E \in SyncGraphs :
          /\ groupExpansions = ExpandedAggregator(SyncNodes, E)
          /\ specialGroups \in SUBSET {AuthenticatedUsers}
          /\ groupKinds = { t[2] : t \in E } \cup specialGroups
    /\ \E n \in 0..MaxSyncDomains :
          syncGraph \in [(SyncNumNodes + 1)..(SyncNumNodes + n) -> DomainAnswers(syncKind)]
    /\ toSubmit = {}
    /\ readers = [d \in DOMAIN syncGraph |-> NewReader]
    /\ syncChan = <<>>
    /\ received = EmptyBag
    /\ written = EmptyBag
    /\ delivered = EmptyBag
    /\ syncErrors = <<>>
    /\ syncPc = "fetch"
    /\ syncResult = <<>>
    /\ ResolveIdle /\ CallIdle /\ Esc1Idle /\ TemplateIdle /\ OpIdle /\ RdpIdle /\ CompIdle /\ RequestIdle /\ WipeIdle /\ AuthIdle /\ CriteriaIdle /\ CounterIdle /\ LinkIdle

\* fetchCollectedDomainNodes returned the domains: the operation is started
FetchCollectedDomainNodes ==
    /\ syncPc = "fetch"
    /\ toSubmit' = DOMAIN syncGraph
    /\ syncPc' = "submit"
    /\ UNCHANGED <<syncKind, syncGraph, readers, syncChan, received, written,
                   delivered, syncErrors, syncResult>>
    /\ UNCHANGED graphVars
    /\ UNCHANGED notSyncVars

\* fetchCollectedDomainNodes failed: the function returns its error
FetchCollectedDomainNodesFail ==
    /\ syncPc = "fetch"
    /\ syncPc' = "failed"
    /\ syncResult' = [err |-> <<<<"fetch", 0>>>>]
    /\ UNCHANGED <<syncKind, syncGraph, toSubmit, readers, syncChan, received,
                   written, delivered, syncErrors>>
    /\ UNCHANGED graphVars
    /\ UNCHANGED notSyncVars

\* reader jobs a worker is executing
SyncBusyReaders ==
    Cardinality({ d \in DOMAIN readers : readers[d].pc \notin {"unsubmitted", "returned"} })

\* operation.Operation.SubmitReader(...) for the next domain of the loop; the
\* call returns once one of the NumReaders workers has taken the job
SubmitSyncReader(domain) ==
    /\ syncPc = "submit"
    /\ domain \in toSubmit
    /\ SyncBusyReaders < MaximumDatabaseParallelWorkers
    /\ toSubmit' = toSubmit \ {domain}
    /\ readers' = [readers EXCEPT ![domain].pc = "syncers"]
    /\ UNCHANGED <<syncKind, syncGraph, syncChan, received, written, delivered,
                   syncErrors, syncPc, syncResult>>
    /\ UNCHANGED graphVars
    /\ UNCHANGED notSyncVars

\* the reader job returns err: the operation collects it
ReaderReturnsError(domain, failed) ==
    /\ readers' = [readers EXCEPT ![domain].pc = "returned",
                                  ![domain].ret = "err",
                                  ![domain].queryFailed = failed]
    /\ syncErrors' = Append(syncErrors, ReaderError(domain))

\* getDCSyncers / getLAPSSyncers: one of the two ops.FetchStartNodes failed
GetSyncersFail(domain) ==
    /\ readers[domain].pc = "syncers"
    /\ ReaderReturnsError(domain, TRUE)
    /\ UNCHANGED <<syncKind, syncGraph, toSubmit, syncChan, received, written,
                   delivered, syncPc, syncResult>>
    /\ UNCHANGED graphVars
    /\ UNCHANGED notSyncVars

\* the jobs the reader of a domain hands to channels.Submit
SyncJobs(kind, domain, syncers) ==
    IF kind = DCSync
    THEN { CreatePostRelationshipJob(value, domain, DCSync) : value \in syncers }
    ELSE { CreatePostRelationshipJob(value, LAPSComputer(domain), SyncLAPSPassword) :
              value \in syncers }

\* getDCSyncers / getLAPSSyncers returned results: CalculateCrossProductNodeSets
\* of the two slices, in which the lookup of the sentinel groups may fail (it is
\* logged and the call goes on without sentinel groups); an empty result ends
\* the reader job with nil
GetSyncers(domain) ==
    /\ readers[domain].pc = "syncers"
    /\ \E lookupFailed \in BOOLEAN :
          \E results \in CalculateCrossProductNodeSets(
                            IF lookupFailed THEN {} ELSE specialGroups,
                            groupKinds, groupExpansions,
                            <<syncGraph[domain].getChanges,
                              syncGraph[domain].getChangesOther>>) :
             readers' = [readers EXCEPT
                ![domain].queryFailed = lookupFailed,
                ![domain].syncers = results,
                ![domain].toEmit = IF syncKind = DCSync
                                   THEN SyncJobs(syncKind, domain, results) ELSE {},
                ![domain].ret = IF results = {} THEN "nil" ELSE "none",
                ![domain].pc = IF results = {} THEN "returned"
                               ELSE IF syncKind = DCSync THEN "emit" ELSE "computers"]
    /\ UNCHANGED <<syncKind, syncGraph, toSubmit, syncChan, received, written,
                   delivered, syncErrors, syncPc, syncResult>>
    /\ UNCHANGED graphVars
    /\ UNCHANGED notSyncVars

\* getLAPSComputersForDomain with the DomainSID property present: ops.FetchNodeIDs
\* returned the computers
GetLAPSComputersForDomain(domain) ==
    /\ readers[domain].pc = "computers"
    /\ syncGraph[domain].hasDomainSID
    /\ readers' = [readers EXCEPT
          ![domain].toEmit = SyncJobs(syncKind, domain, readers[domain].syncers),
          ![domain].pc = "emit"]
    /\ UNCHANGED <<syncKind, syncGraph, toSubmit, syncChan, received, written,
                   delivered, syncErrors, syncPc, syncResult>>
    /\ UNCHANGED graphVars
    /\ UNCHANGED notSyncVars

\* getLAPSComputersForDomain on a domain without the DomainSID property:
\* Properties.Get(...).String() returns an error, which the reader job returns
GetLAPSComputersNoDomainSID(domain) ==
    /\ readers[domain].pc = "computers"
    /\ ~syncGraph[domain].hasDomainSID
    /\ ReaderReturnsError(domain, readers[domain].queryFailed)
    /\ UNCHANGED <<syncKind, syncGraph, toSubmit, syncChan, received, written,
                   delivered, syncPc, syncResult>>
    /\ UNCHANGED graphVars
    /\ UNCHANGED notSyncVars

\* getLAPSComputersForDomain: ops.FetchNodeIDs failed
GetLAPSComputersFail(domain) ==
    /\ readers[domain].pc = "computers"
    /\ syncGraph[domain].hasDomainSID
    /\ ReaderReturnsError(domain, TRUE)
    /\ UNCHANGED <<syncKind, syncGraph, toSubmit, syncChan, received, written,
                   delivered, syncPc, syncResult>>
    /\ UNCHANGED graphVars
    /\ UNCHANGED notSyncVars

\* channels.Submit(ctx, outC, job) that returns without the job in the channel
SubmitJobLosesJob(domain, job) ==
    /\ readers[domain].pc = "emit"
    /\ job \in readers[domain].toEmit
    /\ delivered' = delivered (+) SetToBag({job})
    /\ readers' = [readers EXCEPT ![domain].toEmit = @ \ {job}]
    /\ UNCHANGED <<syncKind, syncGraph, toSubmit, syncChan, received, written,
                   syncErrors, syncPc, syncResult>>
    /\ UNCHANGED graphVars
    /\ UNCHANGED notSyncVars

\* channels.Submit(ctx, outC, job) for the next value of the Each loop: blocks
\* while the channel is full
SubmitJob(domain, job) ==
    /\ readers[domain].pc = "emit"
    /\ job \in readers[domain].toEmit
    /\ Len(syncChan) < SyncChannelCapacity
    /\ syncChan' = Append(syncChan, job)
    /\ delivered' = delivered (+) SetToBag({job})
    /\ readers' = [readers EXCEPT ![domain].toEmit = @ \ {job}]
    /\ UNCHANGED <<syncKind, syncGraph, toSubmit, received, written, syncErrors,
                   syncPc, syncResult>>
    /\ UNCHANGED graphVars
    /\ UNCHANGED notSyncVars

\* the Each loop is over: the reader job returns nil
SyncReaderReturn(domain) ==
    /\ readers[domain].pc = "emit"
    /\ readers[domain].toEmit = {}
    /\ readers' = [readers EXCEPT ![domain].pc = "returned", ![domain].ret = "nil"]
    /\ UNCHANGED <<syncKind, syncGraph, toSubmit, syncChan, received, written,
                   delivered, syncErrors, syncPc, syncResult>>
    /\ UNCHANGED graphVars
    /\ UNCHANGED notSyncVars

\* the writer takes the oldest job from the channel and writes the relationship
WriterWrite ==
    /\ syncChan # <<>>
    /\ syncChan' = Tail(syncChan)
    /\ received' = received (+) SetToBag({Head(syncChan)})
    /\ written' = written (+) SetToBag({Head(syncChan)})
    /\ UNCHANGED <<syncKind, syncGraph, toSubmit, readers, delivered, syncErrors,
                   syncPc, syncResult>>
    /\ UNCHANGED graphVars
    /\ UNCHANGED notSyncVars

\* the writer takes the oldest job from the channel and the write fails: the
\* operation collects the error
WriterWriteFail ==
    /\ syncChan # <<>>
    /\ syncChan' = Tail(syncChan)
    /\ received' = received (+) SetToBag({Head(syncChan)})
    /\ syncErrors' = Append(syncErrors, WriterError(Head(syncChan)))
    /\ UNCHANGED <<syncKind, syncGraph, toSubmit, readers, written, delivered,
                   syncPc, syncResult>>
    /\ UNCHANGED graphVars
    /\ UNCHANGED notSyncVars

\* the for loop is over: operation.Done() is called
SyncCallDone ==
    /\ syncPc = "submit"
    /\ toSubmit = {}
    /\ syncPc' = "done"
    /\ UNCHANGED <<syncKind, syncGraph, toSubmit, readers, syncChan, received,
                   written, delivered, syncErrors, syncResult>>
    /\ UNCHANGED graphVars
    /\ UNCHANGED notSyncVars

\* every reader job has returned and the writer has drained the channel
SyncOperationFinished ==
    /\ \A d \in DOMAIN readers : readers[d].pc = "returned"
    /\ syncChan = <<>>

\* what operation.Done() returns: nil, or the first error that was collected
Done(errs) == [err |-> IF errs = <<>> THEN <<>> ELSE <<Head(errs)>>]

\* return &operation.Stats, nil: the value of operation.Done() is dropped
SyncReturnDropsError ==
    /\ syncPc = "done"
    /\ SyncOperationFinished
    /\ syncResult' = [err |-> <<>>]
    /\ syncPc' = "returned"
    /\ UNCHANGED <<syncKind, syncGraph, toSubmit, readers, syncChan, received,
                   written, delivered, syncErrors>>
    /\ UNCHANGED graphVars
    /\ UNCHANGED notSyncVars

\* return &operation.Stats, operation.Done()
SyncReturn ==
    /\ syncPc = "done"
    /\ SyncOperationFinished
    /\ syncResult' = Done(syncErrors)
    /\ syncPc' = "returned"
    /\ UNCHANGED <<syncKind, syncGraph, toSubmit, readers, syncChan, received,
                   written, delivered, syncErrors>>
    /\ UNCHANGED graphVars
    /\ UNCHANGED notSyncVars

SyncNext ==
    \/ FetchCollectedDomainNodes
    \/ FetchCollectedDomainNodesFail
    \/ \E domain \in SyncDomains : SubmitSyncReader(domain)
    \/ \E domain \in DOMAIN readers : GetSyncersFail(domain)
    \/ \E domain \in DOMAIN readers : GetSyncers(domain)
    \/ \E domain \in DOMAIN readers : GetLAPSComputersForDomain(domain)
    \/ \E domain \in DOMAIN readers : GetLAPSComputersNoDomainSID(domain)
    \/ \E domain \in DOMAIN readers : GetLAPSComputersFail(domain)
    \/ \E domain \in DOMAIN readers : \E job \in readers[domain].toEmit : SubmitJob(domain, job)
    \/ \E domain \in DOMAIN readers : SyncReaderReturn(domain)
    \/ WriterWrite
    \/ WriterWriteFail
    \/ SyncCallDone
    \/ SyncReturn

\* C11: Done() returns only after every submitted reader and the writer have
\* finished; it returns nil when none of them failed and otherwise the first
\* error a reader or the writer returned, and PostDCSync and
\* PostSyncLAPSPassword return that value to their caller.
C11_DoneReturnsFirstError ==
    syncPc = "returned" =>
        /\ toSubmit = {}
        /\ \A d \in DOMAIN readers : readers[d].ret \in {"nil", "err"}
        /\ received = delivered
        /\ (syncResult.err = <<>>) <=>
              /\ \A d \in DOMAIN readers : readers[d].ret = "nil"
              /\ written = received
        /\ syncErrors # <<>> => syncResult.err = <<syncErrors[1]>>

\* two different errors were collected and the function has returned
C11_Witness ==
    /\ syncPc = "returned"
    /\ Len(syncErrors) >= 2
    /\ syncErrors[1] # syncErrors[2]
    /\ syncResult.err = <<syncErrors[1]>>

\* the jobs the reader jobs that ended with nil had to submit
JobsOfReaders ==
    { [FromID |-> v, Kind |-> syncKind,
       ToID |-> IF syncKind = "DCSync" THEN d ELSE d + MaxSyncDomains] :
         <<v, d>> \in { t \in SyncNodes \X DOMAIN readers :
                          /\ readers[t[2]].ret = "nil"
                          /\ t[1] \in readers[t[2]].syncers } }

\* C13: every job a reader has submitted on the output channel is in the
\* channel or has been received by the writer, once and unaltered; when the run
\* ends with no error, every job of every reader has been written exactly once.
C13_JobsReceivedExactlyOnce ==
    /\ received (+) BagOfSeq(syncChan) = delivered
    /\ (syncPc = "returned" /\ syncErrors = <<>>) =>
          /\ written = delivered
          /\ written = SetToBag(JobsOfReaders)

\* an error-free run in which two jobs were written
C13_Witness ==
    /\ syncPc = "returned"
    /\ syncErrors = <<>>
    /\ BagCardinality(written) >= 2

\* C17: a graph query that fails inside a reader job makes that job return a
\* non-nil error, which Done() reports: no reader job in which a query failed
\* (the lookup of the sentinel groups in CalculateCrossProductNodeSets
\* included) ends with nil, and the run then returns an error.
C17_QueryFailureIsFatal ==
    \A d \in DOMAIN readers :
        readers[d].queryFailed =>
            /\ readers[d].ret # "nil"
            /\ syncPc = "returned" => syncResult.err # <<>>

\* C18: a collected domain without the DomainSID property is skipped: when no
\* query and no write failed, PostSyncLAPSPassword returns nil and the jobs of
\* the other domains are written.
C18_MissingPropertySkipsEntity ==
    ( /\ syncKind = "SyncLAPSPassword"
      /\ syncPc = "returned"
      /\ \A d \in DOMAIN readers : ~readers[d].queryFailed
      /\ written = received )
    => /\ syncResult.err = <<>>
       /\ \A d \in DOMAIN readers : readers[d].ret = "nil"

\* ------------------------------------ FetchCanRDPEntityBitmapForComputer
RdpNumNodes == 3
RdpMaxEdges == 2
MaxNotDuplex == 1
MaxFailedQueries == 1

RdpNodes == 1..RdpNumNodes

\* the IDs of the computer's "Remote Desktop Users" and "Direct Access Users"
\* local groups, when the computer has them
RemoteDesktopUsers == 1
DirectAccessUsers == 2

RdpGraphs == SubsetsUpTo({ t \in RdpNodes \X RdpNodes : t[1] # t[2] }, RdpMaxEdges)

\* the queries of one call that can fail
RdpQueries == {"FetchComputerLocalGroupBySIDSuffix", "FetchComputerLocalGroupByName",
               "FetchLocalGroupMembership", "FetchRemoteInteractiveLogonRightEntities",
               "HasRemoteInteractiveLogonRight", "ComputerHasURACollection",
               "FetchTriples"}

\* how a call ends: "ok" with its bitmap, "err" with a non-nil error, "panic";
\* asserted holds the IDs whose Cardinality value went through a type assertion,
\* mutated the IDs whose Cardinality value the call has changed in place
Outcome(outcome, bitmap, asserted) ==
    [outcome |-> outcome, bitmap |-> bitmap, asserted |-> asserted, mutated |-> {}]

\* start nodes of the MemberOfLocalGroup relationships, whatever their end
FirstDegreeMembersOfAnyGroup(a, group) == { t[1] : t \in a.edges }

\* start nodes of the MemberOfLocalGroup relationships that end at the group
FirstDegreeMembers(a, group) == { t[1] : t \in { e \in a.edges : e[2] = group } }

\* any error of the relationship query gives false
HasRemoteInteractiveLogonRight(a, groupId, fails) ==
    IF "HasRemoteInteractiveLogonRight" \in fails THEN FALSE
    ELSE groupId \in a.rilEntities

\* any error of the node query or of the property gives false
ComputerHasURACollection(a, fails) ==
    IF "ComputerHasURACollection" \in fails THEN FALSE ELSE a.hasURA

\* the type assertions .(cardinality.Duplex[uint64]) have no ok result: a
\* Cardinality value that is not a duplex panics
ProcessRDPWithUra(a, kinds, agg, fails) ==
    LET rdpLocalGroup == a.rdpLocalGroup[1]
        rdpLocalGroupMembers == AggCardinality(agg, rdpLocalGroup)
    IN  IF rdpLocalGroup \notin a.duplex
        THEN Outcome("panic", {}, {rdpLocalGroup})
        ELSE IF HasRemoteInteractiveLogonRight(a, rdpLocalGroup, fails)
        THEN IF "FetchTriples" \in fails
             THEN Outcome("err", {}, {rdpLocalGroup})
             ELSE Outcome("ok", FirstDegreeMembers(a, rdpLocalGroup), {rdpLocalGroup})
        ELSE IF "FetchRemoteInteractiveLogonRightEntities" \in fails
        THEN Outcome("err", {}, {rdpLocalGroup})
        ELSE LET expanded == (a.rilEntities \ rdpLocalGroupMembers) \cap kinds
                 secondaryTargets == UNION { AggCardinality(agg, e) : e \in expanded }
                 rdpEntities == (a.rilEntities \cap rdpLocalGroupMembers)
                                   \cup (secondaryTargets \cap rdpLocalGroupMembers)
             IN  IF ~(expanded \subseteq a.duplex)
                 THEN Outcome("panic", {}, {rdpLocalGroup} \cup expanded)
                 ELSE Outcome("ok", rdpEntities, {rdpLocalGroup} \cup expanded)

FetchLocalGroupBitmapForComputer(a, fails) ==
    IF "FetchLocalGroupMembership" \in fails
    THEN Outcome("err", {}, {})
    ELSE IF a.rdpLocalGroup = <<>>
    THEN Outcome("ok", {}, {})
    ELSE Outcome("ok", FirstDegreeMembers(a, a.rdpLocalGroup[1]), {})

FetchRemoteDesktopUsersBitmapForComputer(a, kinds, agg, fails) ==
    IF "FetchComputerLocalGroupBySIDSuffix" \in fails
    THEN Outcome("err", {}, {})
    ELSE IF a.rdpLocalGroup = <<>>
    THEN Outcome("ok", {}, {})
    ELSE IF a.enforceURA \/ ComputerHasURACollection(a, fails)
    THEN ProcessRDPWithUra(a, kinds, agg, fails)
    ELSE FetchLocalGroupBitmapForComputer(a, fails)

\* the type assertion on the members of "Direct Access Users" has an ok result
\* and returns an error; dauGroupMembers.And(remoteDesktopUsers) changes the
\* value Cardinality returned, which is also the value the call returns
FetchCanRDPEntityBitmapForComputer(a, kinds, agg, fails) ==
    LET remoteDesktopUsers == FetchRemoteDesktopUsersBitmapForComputer(a, kinds, agg, fails)
    IN  IF remoteDesktopUsers.outcome # "ok"
        THEN remoteDesktopUsers
        ELSE IF remoteDesktopUsers.bitmap = {} \/ ~a.citrixEnabled
        THEN remoteDesktopUsers
        ELSE IF "FetchComputerLocalGroupByName" \in fails
        THEN Outcome("err", {}, remoteDesktopUsers.asserted)
        ELSE IF a.directAccessUsersGroup = <<>>
        THEN remoteDesktopUsers
        ELSE LET dau == a.directAccessUsersGroup[1]
             IN  IF dau \notin a.duplex
                 THEN Outcome("err", {}, remoteDesktopUsers.asserted \cup {dau})
                 ELSE [Outcome("ok", AggCardinality(agg, dau) \cap remoteDesktopUsers.bitmap,
                               remoteDesktopUsers.asserted \cup {dau})
                          EXCEPT !.mutated = {dau}]

RdpInit ==
    /\ rdpArgs \in [rdpLocalGroup : {<<>>, <<RemoteDesktopUsers>>},
                    directAccessUsersGroup : {<<>>, <<DirectAccessUsers>>},
                    enforceURA : BOOLEAN,
                    citrixEnabled : BOOLEAN,
                    hasURA : BOOLEAN,
                    rilEntities : SUBSET RdpNodes,
                    edges : RdpGraphs,
                    duplex : { RdpNodes \ S : S \in SubsetsUpTo(RdpNodes, MaxNotDuplex) }]
    /\ groupExpansions = ExpandedAggregator(RdpNodes, rdpArgs.edges)
    /\ groupKinds = { t[2] : t \in rdpArgs.edges } \cup Range(rdpArgs.rdpLocalGroup)
                       \cup Range(rdpArgs.directAccessUsersGroup)
    /\ specialGroups = {}
    /\ rdpResult = <<>>
    /\ rdpPc = "call"
    /\ ResolveIdle /\ CallIdle /\ Esc1Idle /\ TemplateIdle /\ OpIdle /\ SyncIdle /\ CompIdle /\ RequestIdle /\ WipeIdle /\ AuthIdle /\ CriteriaIdle /\ CounterIdle /\ LinkIdle

\* The aggregator after a call that ended with the result: a Cardinality value
\* the call changed in place is either the entry the aggregator holds, which
\* then holds the changed set, or a set of its own.
AggregatorsAfter(agg, result) ==
    {agg} \cup { [agg EXCEPT !.sets[g] = result.bitmap] : g \in result.mutated }

\* one call, in which at most MaxFailedQueries of its queries fail
RdpCall ==
    /\ rdpPc = "call"
    /\ \E fails \in SubsetsUpTo(RdpQueries, MaxFailedQueries) :
          /\ rdpResult' = FetchCanRDPEntityBitmapForComputer(rdpArgs, groupKinds,
                                                             groupExpansions, fails)
          /\ groupExpansions' \in AggregatorsAfter(groupExpansions, rdpResult')
    /\ rdpPc' = "returned"
    /\ UNCHANGED <<rdpArgs, groupKinds, specialGroups>>
    /\ UNCHANGED notRdpVars

RdpNext == RdpCall

\* C19: whenever a Cardinality value the call needs as a mutable duplex set is
\* not one, FetchCanRDPEntityBitmapForComputer (ProcessRDPWithUra included)
\* returns a non-nil error: the call never panics and never goes on.
C19_NotDuplexIsAnError ==
    rdpPc = "returned" =>
        /\ rdpResult.outcome # "panic"
        /\ ~(rdpResult.asserted \subseteq rdpArgs.duplex) => rdpResult.outcome = "err"

\* first-degree and transitive members of a group in the graph of the call
RdpMembers(group) == AggCardinality(ExpandedAggregator(RdpNodes, rdpArgs.edges), group)

\* the failed queries with which the call returns what it has returned
RdpFailsOfResult ==
    { fails \in SubsetsUpTo(RdpQueries, MaxFailedQueries) :
        LET r == FetchCanRDPEntityBitmapForComputer(rdpArgs, groupKinds,
                     ExpandedAggregator(RdpNodes, rdpArgs.edges), fails)
        IN  r.outcome = rdpResult.outcome /\ r.bitmap = rdpResult.bitmap }

\* the IDs that hold the remote-interactive-logon right on the computer or are
\* transitive members of a group that holds it
RilHolders ==
    rdpArgs.rilEntities \cup UNION { RdpMembers(g) : g \in rdpArgs.rilEntities \cap groupKinds }

MaxGoroutines == 2
MaxGets == 2

Goroutines == 1..MaxGoroutines

CounterInit ==
    /\ counter = 0
    /\ getCalls = [g \in Goroutines |-> [pc |-> "idle", ret |-> 0, calls |-> 0]]
    /\ gotten = <<>>
    /\ ResolveIdle /\ GraphIdle /\ CallIdle /\ Esc1Idle /\ TemplateIdle /\ OpIdle /\ SyncIdle /\ RdpIdle /\ CompIdle /\ RequestIdle /\ WipeIdle /\ AuthIdle /\ CriteriaIdle /\ LinkIdle

\* ret := c.counter.Load()
GetLoad(g) ==
    /\ getCalls[g].pc = "idle"
    /\ getCalls[g].calls < MaxGets
    /\ getCalls' = [getCalls EXCEPT ![g].pc = "loaded", ![g].ret = counter,
                                     ![g].calls = @ + 1]
    /\ UNCHANGED <<counter, gotten>>
    /\ UNCHANGED notCounterVars

\* c.counter.Add(1); the counter is an atomic.Int64 and the calls of the model
\* stay far below its largest value
GetAdd(g) ==
    /\ getCalls[g].pc = "loaded"
    /\ counter' = counter + 1
    /\ getCalls' = [getCalls EXCEPT ![g].pc = "added"]
    /\ UNCHANGED gotten
    /\ UNCHANGED notCounterVars

\* return ret
GetReturn(g) ==
    /\ getCalls[g].pc = "added"
    /\ gotten' = Append(gotten, getCalls[g].ret)
    /\ getCalls' = [getCalls EXCEPT ![g].pc = "idle"]
    /\ UNCHANGED counter
    /\ UNCHANGED notCounterVars

CounterNext == \E g \in Goroutines : GetLoad(g) \/ GetAdd(g) \/ GetReturn(g)

\* C38: the calls of Get return 0, 1, 2, ... and no value twice, also when
\* several goroutines call Get at the same time.
C38_NoValueTwice ==
    /\ \A i, j \in DOMAIN gotten : i # j => gotten[i] # gotten[j]
    /\ { gotten[i] : i \in DOMAIN gotten } \subseteq 0..(counter - 1)

\* ------------------------------------------------ LinkWellKnownGroups
MaxLinkDomains == 2
MaxLinkValues == 2
MaxLinkNodes == 2
MaxLinkEdges == 1
MaxLinkRuns == 2

\* a domain SID or a domain name, <<>> when the node does not carry the property
LinkProperty == {<<>>} \cup { <<v>> : v \in 1..MaxLinkValues }

\* wellknown.DefineSID(prefix, suffix): the object ID of a well-known group;
\* the prefix is a domain SID for Domain Users and Domain Computers and a
\* domain name for Authenticated Users and Everyone
DefineSID(prefix, suffix) == <<prefix, suffix>>

DomainUsersSIDSuffix == "-513"
DomainComputersSIDSuffix == "-515"
AuthenticatedUsersSIDSuffix == "-S-1-5-11"
EveryoneSIDSuffix == "-S-1-1-0"

WellKnownSIDs ==
    { DefineSID(<<"sid", v>>, suffix) :
        v \in 1..MaxLinkValues, suffix \in {DomainUsersSIDSuffix, DomainComputersSIDSuffix} }
    \cup
    { DefineSID(<<"name", v>>, suffix) :
        v \in 1..MaxLinkValues, suffix \in {AuthenticatedUsersSIDSuffix, EveryoneSIDSuffix} }

\* graphs in which every object ID is carried by at most one node
LinkNodeSeqs ==
    { ns \in UNION { [1..n -> [objectid : WellKnownSIDs, group : BOOLEAN]] : n \in 0..MaxLinkNodes } :
        \A i, j \in DOMAIN ns : ns[i].objectid = ns[j].objectid => i = j }

\* at most one MemberOf relationship from one node to another
LinkEdgeSeqs(ns) ==
    { es \in UNION { [1..n -> { e \in (DOMAIN ns) \X (DOMAIN ns) : e[1] # e[2] }] :
                        n \in 0..MaxLinkEdges } :
        \A i, j \in DOMAIN es : es[i] = es[j] => i = j }

LinkInit ==
    /\ lkDomains \in UNION { [1..n -> [sid : LinkProperty, name : LinkProperty]] : n \in 1..MaxLinkDomains }
    /\ lkNodes \in LinkNodeSeqs
    /\ lkEdges \in LinkEdgeSeqs(lkNodes)
    /\ lkNext = 0
    /\ lkErrors = 0
    /\ lkRuns = <<>>
    /\ lkPc = "call"
    /\ ResolveIdle /\ GraphIdle /\ CallIdle /\ Esc1Idle /\ TemplateIdle /\ OpIdle /\ SyncIdle /\ RdpIdle /\ CompIdle /\ RequestIdle /\ WipeIdle /\ AuthIdle /\ CriteriaIdle /\ CounterIdle

\* The pairs <<nodes after the call, ID of the returned node>>: First() returns
\* any node with the object ID; when there is none the node is created, and a
\* found node gets the kind Group when it lacks it.
getOrCreateWellKnownGroup(nodes, wellKnownSid) ==
    LET found == { i \in DOMAIN nodes : nodes[i].objectid = wellKnownSid }
    IN  IF found = {}
        THEN { <<Append(nodes, [objectid |-> wellKnownSid, group |-> TRUE]), Len(nodes) + 1>> }
        ELSE { <<[nodes EXCEPT ![i].group = TRUE], i>> : i \in found }

\* the link is created whether or not the relationship exists
createWellKnownLink(rels, startNode, endNode) == Append(rels, <<startNode, endNode>>)

\* an existing relationship gets a new lastseen, which is not part of the model
createOrUpdateWellKnownLink(rels, startNode, endNode) ==
    IF \E i \in DOMAIN rels : rels[i] = <<startNode, endNode>>
    THEN rels
    ELSE Append(rels, <<startNode, endNode>>)

\* The graphs the write transaction of one domain can leave when it commits:
\* the four getOrCreateWellKnownGroup calls, then the three links.
LinkTransaction(nodes, rels, domainSid, domainName) ==
    UNION { UNION { UNION {
        { [nodes |-> domainComputerNode[1],
           edges |-> createOrUpdateWellKnownLink(
                        createOrUpdateWellKnownLink(
                            createOrUpdateWellKnownLink(rels, domainUserNode[2], authUsersNode[2]),
                            domainComputerNode[2], authUsersNode[2]),
                        authUsersNode[2], everyoneNode[2])] :
            domainComputerNode \in getOrCreateWellKnownGroup(everyoneNode[1],
                DefineSID(<<"sid", domainSid>>, DomainComputersSIDSuffix)) } :
          everyoneNode \in getOrCreateWellKnownGroup(authUsersNode[1],
                DefineSID(<<"name", domainName>>, EveryoneSIDSuffix)) } :
        authUsersNode \in getOrCreateWellKnownGroup(domainUserNode[1],
                DefineSID(<<"name", domainName>>, AuthenticatedUsersSIDSuffix)) } :
      domainUserNode \in getOrCreateWellKnownGroup(nodes,
                DefineSID(<<"sid", domainSid>>, DomainUsersSIDSuffix)) }

\* what a returned run leaves in lkRuns
LinkRun(failed) == [failed |-> failed, nodes |-> lkNodes, edges |-> lkEdges]

\* domains, err := GetCollectedDomains(ctx, db); err == nil
GetCollectedDomains ==
    /\ lkPc = "call"
    /\ Len(lkRuns) < MaxLinkRuns
    /\ lkPc' = "loop"
    /\ lkNext' = 1
    /\ lkErrors' = 0
    /\ UNCHANGED <<lkDomains, lkNodes, lkEdges, lkRuns>>
    /\ UNCHANGED notLinkVars

\* err != nil: the run returns the error
GetCollectedDomainsFail ==
    /\ lkPc = "call"
    /\ Len(lkRuns) < MaxLinkRuns
    /\ lkRuns' = Append(lkRuns, LinkRun(TRUE))
    /\ UNCHANGED <<lkDomains, lkNodes, lkEdges, lkNext, lkErrors, lkPc>>
    /\ UNCHANGED notLinkVars

\* nodeprops.ReadDomainIDandNameAsString(domain) fails: the error is logged and
\* the loop goes on to the next domain
ReadDomainFail ==
    /\ lkPc = "loop"
    /\ lkNext <= Len(lkDomains)
    /\ lkDomains[lkNext].sid = <<>> \/ lkDomains[lkNext].name = <<>>
    /\ lkNext' = lkNext + 1
    /\ UNCHANGED <<lkDomains, lkNodes, lkEdges, lkErrors, lkRuns, lkPc>>
    /\ UNCHANGED notLinkVars

\* db.WriteTransaction(...) of the domain commits
LinkDomain ==
    /\ lkPc = "loop"
    /\ lkNext <= Len(lkDomains)
    /\ lkDomains[lkNext].sid # <<>> /\ lkDomains[lkNext].name # <<>>
    /\ \E g \in LinkTransaction(lkNodes, lkEdges, lkDomains[lkNext].sid[1],
                                lkDomains[lkNext].name[1]) :
          /\ lkNodes' = g.nodes
          /\ lkEdges' = g.edges
    /\ lkNext' = lkNext + 1
    /\ UNCHANGED <<lkDomains, lkErrors, lkRuns, lkPc>>
    /\ UNCHANGED notLinkVars

\* db.WriteTransaction(...) returns an error: nothing of the transaction is
\* kept and the error is added to the collector
LinkDomainFail ==
    /\ lkPc = "loop"
    /\ lkNext <= Len(lkDomains)
    /\ lkDomains[lkNext].sid # <<>> /\ lkDomains[lkNext].name # <<>>
    /\ lkErrors' = lkErrors + 1
    /\ lkNext' = lkNext + 1
    /\ UNCHANGED <<lkDomains, lkNodes, lkEdges, lkRuns, lkPc>>
    /\ UNCHANGED notLinkVars

\* return errors.Combined()
LinkReturn ==
    /\ lkPc = "loop"
    /\ lkNext > Len(lkDomains)
    /\ lkRuns' = Append(lkRuns, LinkRun(lkErrors > 0))
    /\ lkPc' = "call"
    /\ UNCHANGED <<lkDomains, lkNodes, lkEdges, lkNext, lkErrors>>
    /\ UNCHANGED notLinkVars

LinkNext ==
    \/ GetCollectedDomains
    \/ GetCollectedDomainsFail
    \/ ReadDomainFail
    \/ LinkDomain
    \/ LinkDomainFail
    \/ LinkReturn

\* the well-known object IDs of a collected domain whose SID and name can be read
WellKnownSIDsOf(domain) ==
    { DefineSID(<<"sid", domain.sid[1]>>, DomainUsersSIDSuffix),
      DefineSID(<<"sid", domain.sid[1]>>, DomainComputersSIDSuffix),
      DefineSID(<<"name", domain.name[1]>>, AuthenticatedUsersSIDSuffix),
      DefineSID(<<"name", domain.name[1]>>, EveryoneSIDSuffix) }

\* the links LinkWellKnownGroups makes for the domain, as pairs of object IDs
WellKnownLinksOf(domain) ==
    { <<DefineSID(<<"sid", domain.sid[1]>>, DomainUsersSIDSuffix),
        DefineSID(<<"name", domain.name[1]>>, AuthenticatedUsersSIDSuffix)>>,
      <<DefineSID(<<"sid", domain.sid[1]>>, DomainComputersSIDSuffix),
        DefineSID(<<"name", domain.name[1]>>, AuthenticatedUsersSIDSuffix)>>,
      <<DefineSID(<<"name", domain.name[1]>>, AuthenticatedUsersSIDSuffix),
        DefineSID(<<"name", domain.name[1]>>, EveryoneSIDSuffix)>> }

ReadableDomains ==
    { lkDomains[i] : i \in { j \in DOMAIN lkDomains : lkDomains[j].sid # <<>> /\ lkDomains[j].name # <<>> } }

MaxCompTemplates == 1
MaxEnterpriseCAs == 2

\* node IDs: the edge's start node, the certificate templates that satisfy the
\* template condition of ADCSESC1Path1Pattern, the Enterprise CAs, the root CA,
\* the NTAuth store and the domain edge.EndID
CompStartNode == 1
CompTemplates == 2..(1 + MaxCompTemplates)
EnterpriseCAs == (2 + MaxCompTemplates)..(1 + MaxCompTemplates + MaxEnterpriseCAs)
RootCA == 2 + MaxCompTemplates + MaxEnterpriseCAs
NTAuthStore == RootCA + 1
CompDomain == RootCA + 2

\* The relationships of the graph: GenericAll/Enroll/AllExtendedRights from
\* the start node to a template, PublishedTo, IssuedSignedBy/EnterpriseCAFor
\* between Enterprise CAs, the CAs with IssuedSignedBy/EnterpriseCAFor to the
\* root CA of the domain, Enroll from the start node to a CA, the CAs with
\* TrustedForNTAuth to the NTAuth store of the domain.
CompGraphs ==
    [enrollTemplate : SUBSET CompTemplates,
     publishedTo : SUBSET (CompTemplates \X EnterpriseCAs),
     issuedSignedBy : SUBSET { t \in EnterpriseCAs \X EnterpriseCAs : t[1] # t[2] },
     rootCAFor : SUBSET EnterpriseCAs,
     enrollCA : SUBSET EnterpriseCAs,
     trustedForNTAuth : SUBSET EnterpriseCAs]

\* OutboundWithDepth(0, 0, IssuedSignedBy|EnterpriseCAFor): the chains of
\* Enterprise CAs that start with the chain and visit no node twice
RECURSIVE CAChains(_, _, _)
CAChains(g, chain, n) ==
    {chain} \cup
    IF n = 0 THEN {}
    ELSE UNION { CAChains(g, Append(chain, t[2]), n - 1) :
                    t \in { e \in g.issuedSignedBy :
                               e[1] = Last(chain) /\ e[2] \notin Range(chain) } }

\* the terminal segments of ADCSESC1Path1Pattern(domain), root first
ADCSESC1Path1Pattern(g) ==
    UNION { { <<CompStartNode, t[1]>> \o chain \o <<RootCA, CompDomain>> :
                 chain \in { c \in CAChains(g, <<t[2]>>, MaxEnterpriseCAs) :
                                Last(c) \in g.rootCAFor } } :
            t \in { e \in g.publishedTo : e[1] \in g.enrollTemplate } }

\* the terminal segments of ADCSESC1Path2Pattern(domain, enterpriseCAs)
ADCSESC1Path2Pattern(g, enterpriseCAs) ==
    { <<CompStartNode, ca, NTAuthStore, CompDomain>> :
         ca \in g.enrollCA \cap g.trustedForNTAuth \cap enterpriseCAs }

\* terminal.WalkReverse(...) that keeps the last Enterprise CA it meets on the
\* way from the terminal to the root: the CA nearest to the root
RECURSIVE WalkReverseCA(_, _, _)
WalkReverseCA(terminal, i, found) ==
    IF i = 0 THEN found
    ELSE WalkReverseCA(terminal, i - 1,
                       IF terminal[i] \in EnterpriseCAs THEN <<terminal[i]>> ELSE found)

\* terminal.Search(...): the first Enterprise CA met from the terminal
RECURSIVE SearchCA(_, _)
SearchCA(terminal, i) ==
    IF i = 0 THEN <<>>
    ELSE IF terminal[i] \in EnterpriseCAs THEN <<terminal[i]>>
    ELSE SearchCA(terminal, i - 1)

CompInit ==
    /\ escGraph \in CompGraphs
    /\ candidateSegments = [ca \in EnterpriseCAs |-> <<>>]
    /\ path1EnterpriseCAs = {}
    /\ path2EnterpriseCAs = {}
    /\ terminals = {}
    /\ compResult = <<>>
    /\ compPc = "start"
    /\ ResolveIdle /\ GraphIdle /\ CallIdle /\ Esc1Idle /\ TemplateIdle /\ OpIdle /\ SyncIdle /\ RdpIdle /\ RequestIdle /\ WipeIdle /\ AuthIdle /\ CriteriaIdle /\ CounterIdle /\ LinkIdle

\* ops.FetchNode(tx, edge.StartID) or FetchAuthUsersAndEveryoneGroups failed
FetchStartNodesFail ==
    /\ compPc = "start"
    /\ compResult' = [paths |-> {}, err |-> TRUE]
    /\ compPc' = "returned"
    /\ UNCHANGED <<escGraph, candidateSegments, path1EnterpriseCAs, path2EnterpriseCAs, terminals>>
    /\ UNCHANGED notCompVars

\* the start nodes are fetched and the traversals of P1 begin
FetchStartNodes ==
    /\ compPc = "start"
    /\ terminals' = ADCSESC1Path1Pattern(escGraph)
    /\ compPc' = "p1"
    /\ UNCHANGED <<escGraph, candidateSegments, path1EnterpriseCAs, path2EnterpriseCAs, compResult>>
    /\ UNCHANGED notCompVars

\* a BreadthFirst of P1 or of P2 returned an error
CompBreadthFirstFail ==
    /\ compPc \in {"p1", "p2"}
    /\ compResult' = [paths |-> {}, err |-> TRUE]
    /\ compPc' = "returned"
    /\ terminals' = {}
    /\ UNCHANGED <<escGraph, candidateSegments, path1EnterpriseCAs, path2EnterpriseCAs>>
    /\ UNCHANGED notCompVars

\* the Do callback of P1 on one terminal segment, under the lock
Path1Terminal(terminal) ==
    /\ compPc = "p1"
    /\ terminal \in terminals
    /\ LET enterpriseCANode == WalkReverseCA(terminal, Len(terminal), <<>>)[1]
       IN  /\ candidateSegments' = [candidateSegments EXCEPT
                                      ![enterpriseCANode] = Append(@, terminal)]
           /\ path1EnterpriseCAs' = path1EnterpriseCAs \cup {enterpriseCANode}
    /\ terminals' = terminals \ {terminal}
    /\ UNCHANGED <<escGraph, path2EnterpriseCAs, compResult, compPc>>
    /\ UNCHANGED notCompVars

\* the traversals of P1 are over: ADCSESC1Path2Pattern is built with the CAs
\* recorded so far and the traversals of P2 begin
Path1Done ==
    /\ compPc = "p1"
    /\ terminals = {}
    /\ terminals' = ADCSESC1Path2Pattern(escGraph, path1EnterpriseCAs)
    /\ compPc' = "p2"
    /\ UNCHANGED <<escGraph, candidateSegments, path1EnterpriseCAs, path2EnterpriseCAs, compResult>>
    /\ UNCHANGED notCompVars

\* the Do callback of P2 on one terminal segment, under the lock
Path2Terminal(terminal) ==
    /\ compPc = "p2"
    /\ terminal \in terminals
    /\ LET enterpriseCANode == SearchCA(terminal, Len(terminal))[1]
       IN  /\ candidateSegments' = [candidateSegments EXCEPT
                                      ![enterpriseCANode] = Append(@, terminal)]
           /\ path2EnterpriseCAs' = path2EnterpriseCAs \cup {enterpriseCANode}
    /\ terminals' = terminals \ {terminal}
    /\ UNCHANGED <<escGraph, path1EnterpriseCAs, compResult, compPc>>
    /\ UNCHANGED notCompVars

\* the paths of the segments kept for the CAs of the bitmap
RenderedPaths(segments, enterpriseCAs) ==
    UNION { Range(segments[ca]) : ca \in enterpriseCAs }

\* the paths are rendered for every CA that Path 1 recorded
RenderPathsWithoutIntersection ==
    /\ compPc = "p2"
    /\ terminals = {}
    /\ compResult' = [paths |-> RenderedPaths(candidateSegments, path1EnterpriseCAs),
                      err |-> FALSE]
    /\ compPc' = "returned"
    /\ UNCHANGED <<escGraph, candidateSegments, path1EnterpriseCAs, path2EnterpriseCAs, terminals>>
    /\ UNCHANGED notCompVars

\* path1EnterpriseCAs.And(path2EnterpriseCAs), then the paths are rendered
\* for every CA left in path1EnterpriseCAs
RenderPaths ==
    /\ compPc = "p2"
    /\ terminals = {}
    /\ path1EnterpriseCAs' = path1EnterpriseCAs \cap path2EnterpriseCAs
    /\ compResult' = [paths |-> RenderedPaths(candidateSegments, path1EnterpriseCAs'),
                      err |-> FALSE]
    /\ compPc' = "returned"
    /\ UNCHANGED <<escGraph, candidateSegments, path2EnterpriseCAs, terminals>>
    /\ UNCHANGED notCompVars

CompNext ==
    \/ FetchStartNodesFail
    \/ FetchStartNodes
    \/ CompBreadthFirstFail
    \/ \E terminal \in terminals : Path1Terminal(terminal)
    \/ Path1Done
    \/ \E terminal \in terminals : Path2Terminal(terminal)
    \/ RenderPaths

\* the Enterprise CA of a path: the first Enterprise CA after the start node
CAOfPath(path) == CHOOSE ca \in EnterpriseCAs :
                     \E i \in 1..Len(path) :
                        /\ path[i] = ca
                        /\ \A j \in 1..(i - 1) : path[j] \notin EnterpriseCAs

\* C22: every returned path comes from a candidate segment whose Enterprise CA
\* was recorded by a Path-1 match and by a Path-2 match; a segment whose CA
\* only one of the two patterns saw is never returned.
C22_OnlyCAsOfBothPaths ==
    compPc = "returned" =>
        \A path \in compResult.paths :
            /\ path \in Range(candidateSegments[CAOfPath(path)])
            /\ \E p1 \in ADCSESC1Path1Pattern(escGraph) : CAOfPath(p1) = CAOfPath(path)
            /\ \E p2 \in ADCSESC1Path2Pattern(escGraph, EnterpriseCAs) :
                  CAOfPath(p2) = CAOfPath(path)

\* paths are returned, and one CA that Path 1 recorded has no Path-2 match
C22_Witness ==
    /\ compPc = "returned"
    /\ compResult.paths # {}
    /\ \E ca \in EnterpriseCAs :
          /\ candidateSegments[ca] # <<>>
          /\ Range(candidateSegments[ca]) \cap compResult.paths = {}

\* the delegate invocations that are running or have returned
Invocations == inflight \cup delegateLog

\* C23: in both directions the query of newTraversalQuery yields no edge whose
\* opposite endpoint is the segment's own node, so no delegate invocation
\* descends from its node into that node or records a shortcut for it.
C23_NoSelfLoopEdges ==
    /\ \A n \in Nodes :
          /\ \A t \in newTraversalQuery(edges, <<n>>, "DirectionInbound").triples :
                t[2] = n /\ t[1] # n
          /\ \A t \in newTraversalQuery(edges, <<n>>, "DirectionOutbound").triples :
                t[1] = n /\ t[2] # n
    /\ \A inv \in Invocations :
          /\ \A next \in inv.nextSegments : Last(next) # Last(inv.segment)
          /\ Last(inv.segment) \notin inv.shortcuts
    /\ \A inv \in inflight : Last(inv.segment) \notin inv.cursor

\* a node with an edge to itself was expanded and has descended into another node
C23_Witness ==
    \E inv \in delegateLog :
        /\ <<Last(inv.segment), Last(inv.segment)>> \in edges
        /\ inv.nextSegments # {}

\* the start nodes of the triples a delegate invocation fetches for its segment
Fetched(segment) == { t[1] : t \in InboundTriples(searchCriteria(edges), segment) }

\* the nodes an invocation has descended into
Descended(inv) == { Last(next) : next \in inv.nextSegments }

\* what C28 says of the start nodes an invocation has handled so far
HandledOneWay(inv, handled) ==
    /\ Descended(inv) \cup inv.shortcuts = handled
    /\ Descended(inv) \cap inv.shortcuts = {}
    /\ Descended(inv) = inv.inserted
    /\ \A next \in inv.nextSegments : next = Descend(inv.segment, Last(next))

\* C28: in each delegate invocation every fetched edge is handled in exactly
\* one of two ways, a descent into its start node if CheckedAdd newly inserted
\* the node and AddShortcut otherwise, and an invocation that returns its next
\* segments has called AddPath exactly when it returns none.
C28_DescendOrShortcut ==
    /\ \A inv \in inflight : HandledOneWay(inv, Fetched(inv.segment) \ inv.cursor)
    /\ \A inv \in delegateLog :
          /\ HandledOneWay(inv, Fetched(inv.segment))
          /\ inv.addedPath <=> inv.nextSegments = {}

\* one invocation that has returned after a descent and a shortcut, and a
\* terminal one that has called AddPath
C28_Witness ==
    /\ \E inv \in delegateLog :
          /\ inv.nextSegments # {}
          /\ inv.shortcuts # {}
          /\ ~inv.addedPath
    /\ \E inv \in delegateLog :
          /\ Fetched(inv.segment) # {}
          /\ inv.addedPath

\* C29: across all roots and workers of one run no node ID is returned as a
\* next segment more than once.
C29_DescendedAtMostOnce ==
    \A a, b \in Invocations :
        \A s \in a.nextSegments, t \in b.nextSegments :
            Last(s) = Last(t) => (a.segment = b.segment /\ s = t)

\* a node that two invocations have fetched has been descended into by one of
\* them and recorded as a shortcut by the other
C29_Witness ==
    \E a, b \in delegateLog :
        /\ a.segment # b.segment
        /\ Descended(a) \cap b.shortcuts # {}

\* The run of one worker that takes the roots in a given order, the segments in
\* the order they were returned and the triples of a query in ascending order
\* of their start node: the triples of one query
RECURSIVE OneWorkerTriples(_, _, _)
OneWorkerTriples(st, segment, starts) ==
    IF starts = {} THEN st
    ELSE LET startID == CHOOSE x \in starts : \A y \in starts : x <= y
             next == Descend(segment, startID)
         IN  OneWorkerTriples(
                 IF startID \notin st.visited
                 THEN [st EXCEPT !.visited = @ \cup {startID}, !.next = Append(@, next)]
                 ELSE [st EXCEPT !.agg = AddShortcut(@, next)],
                 segment, starts \ {startID})

\* the breadth-first traversal of the queued segments
RECURSIVE OneWorkerBreadthFirst(_, _)
OneWorkerBreadthFirst(st, queue) ==
    IF queue = <<>> THEN st
    ELSE LET segment == Head(queue)
             after == OneWorkerTriples([agg |-> st.agg, visited |-> st.visited, next |-> <<>>],
                                       segment, Fetched(segment))
         IN  OneWorkerBreadthFirst(
                 [agg |-> IF after.next = <<>> THEN AddPath(after.agg, segment) ELSE after.agg,
                  visited |-> after.visited],
                 Tail(queue) \o after.next)

\* the loop over the roots
RECURSIVE OneWorkerRun(_, _)
OneWorkerRun(st, roots) ==
    IF roots = <<>> THEN st
    ELSE OneWorkerRun(
            IF Head(roots) \in st.visited THEN st
            ELSE OneWorkerBreadthFirst(st, <<NewRootIDSegment(Head(roots))>>),
            Tail(roots))

MaxPermissions == 2

\* the permissions a role can hold and an operation can require
AuthPermissions == 1..MaxPermissions

\* what ctx.Owner can hold: a model.User, nothing, or a value of another type
OwnerKinds == {"model.User", "nil", "other"}

\* auth.Context: roles are the permissions of the owner's roles when the owner
\* is a user
Contexts ==
    { c \in [ Owner               : OwnerKinds,
              Roles               : SUBSET AuthPermissions,
              PermissionOverrides : [ Enabled : BOOLEAN, Permissions : SUBSET AuthPermissions ] ] :
        c.Owner # "model.User" => c.Roles = {} }

GetUserFromAuthCtx(ctx) ==
    IF ctx.Owner = "model.User" THEN [user |-> ctx.Roles, isUser |-> TRUE]
                                ELSE [user |-> {}, isUser |-> FALSE]

getPermissions(ctx) ==
    LET u == GetUserFromAuthCtx(ctx)
    IN  IF u.isUser THEN [permissions |-> u.user, isAuthed |-> TRUE]
                    ELSE [permissions |-> {}, isAuthed |-> FALSE]

hasPermission(ctx, requiredPermission, grantedPermissions) ==
    IF ctx.PermissionOverrides.Enabled
       THEN requiredPermission \in ctx.PermissionOverrides.Permissions
       ELSE requiredPermission \in grantedPermissions

AllowsPermission(ctx, requiredPermission) ==
    LET g == getPermissions(ctx)
    IN  IF g.isAuthed THEN hasPermission(ctx, requiredPermission, g.permissions)
                      ELSE FALSE

\* the loop returns false at the first permission that is missing; without
\* permissions (isAuthed false) the loop is not entered and true is returned
AllowsAllPermissions(ctx, requiredPermissions) ==
    LET g == getPermissions(ctx)
    IN  IF g.isAuthed /\ \E p \in requiredPermissions : ~hasPermission(ctx, p, g.permissions)
           THEN FALSE
           ELSE TRUE

AllowsAtLeastOnePermission(ctx, requiredPermissions) ==
    LET g == getPermissions(ctx)
    IN  IF g.isAuthed /\ \E p \in requiredPermissions : hasPermission(ctx, p, g.permissions)
           THEN TRUE
           ELSE FALSE

AuthInit ==
    /\ authCtx \in Contexts
    /\ authResult = <<>>
    /\ ResolveIdle /\ GraphIdle /\ CallIdle /\ Esc1Idle /\ TemplateIdle /\ OpIdle /\ SyncIdle /\ RdpIdle /\ CompIdle /\ RequestIdle /\ WipeIdle /\ CriteriaIdle /\ CounterIdle /\ LinkIdle

CallAllowsPermission ==
    /\ \E p \in AuthPermissions :
          authResult' = << [fn |-> "AllowsPermission", required |-> {p},
                            allowed |-> AllowsPermission(authCtx, p)] >>
    /\ UNCHANGED authCtx
    /\ UNCHANGED notAuthVars

CallAllowsAllPermissions ==
    /\ \E ps \in SUBSET AuthPermissions :
          authResult' = << [fn |-> "AllowsAllPermissions", required |-> ps,
                            allowed |-> AllowsAllPermissions(authCtx, ps)] >>
    /\ UNCHANGED authCtx
    /\ UNCHANGED notAuthVars

CallAllowsAtLeastOnePermission ==
    /\ \E ps \in SUBSET AuthPermissions :
          authResult' = << [fn |-> "AllowsAtLeastOnePermission", required |-> ps,
                            allowed |-> AllowsAtLeastOnePermission(authCtx, ps)] >>
    /\ UNCHANGED authCtx
    /\ UNCHANGED notAuthVars

AuthNext ==
    \/ CallAllowsPermission
    \/ CallAllowsAllPermissions
    \/ CallAllowsAtLeastOnePermission

\* C27: for a user without permission overrides (the role tests) a call that
\* requires one permission is allowed exactly when the permissions of the
\* user's roles include it, and each of the three functions answers false for
\* a context whose owner is not a user.
C27_OnlyUsersWithPermission ==
    \A r \in Range(authResult) :
        /\ ( /\ authCtx.Owner = "model.User"
             /\ ~authCtx.PermissionOverrides.Enabled
             /\ Cardinality(r.required) = 1 )
           => ( r.allowed <=> r.required \subseteq authCtx.Roles )
        /\ authCtx.Owner # "model.User" => ~r.allowed

\* ------------------------------------------- HandleDatabaseWipe (api/v2)
MaxAssetGroups == 1

\* the request bodies that decode into a DatabaseWipe
Payloads ==
    [ DeleteCollectedGraphData  : BOOLEAN,
      DeleteFileIngestHistory   : BOOLEAN,
      DeleteDataQualityHistory  : BOOLEAN,
      DeleteAssetGroupSelectors : {<<>>} \cup { <<id>> : id \in 1..MaxAssetGroups } ]

\* one call on s.DB and whether it returned without error
DBCall(call, ok) == [call |-> call, ok |-> ok]

\* handleAuditLogForDatabaseWipe: the audit entry is appended, an error of the
\* append is only logged
handleAuditLogForDatabaseWipe(calls) ==
    { Append(calls, DBCall("AppendAuditLog", ok)) : ok \in BOOLEAN }

WipeInit ==
    /\ payload \in Payloads
    /\ kickoffAnalysis = FALSE
    /\ wipeErrors = <<>>
    /\ dbCalls = <<>>
    /\ wipeStatus = "none"
    /\ wipePc = "read"
    /\ ResolveIdle /\ GraphIdle /\ CallIdle /\ Esc1Idle /\ TemplateIdle /\ OpIdle /\ SyncIdle /\ RdpIdle /\ CompIdle /\ RequestIdle /\ AuthIdle /\ CriteriaIdle /\ CounterIdle /\ LinkIdle

\* the handler returns after writing an error response
WipeReturn(status) ==
    /\ wipeStatus' = status
    /\ wipePc' = "done"

\* ReadJSONRequestPayloadLimited fails (the body is not JSON), or the payload
\* selects nothing to delete
ReadPayloadBadRequest ==
    /\ wipePc = "read"
    /\ \E malformed \in BOOLEAN :
          \/ malformed
          \/ /\ ~payload.DeleteCollectedGraphData
             /\ ~payload.DeleteDataQualityHistory
             /\ ~payload.DeleteFileIngestHistory
             /\ Len(payload.DeleteAssetGroupSelectors) = 0
    /\ WipeReturn("StatusBadRequest")
    /\ UNCHANGED <<payload, kickoffAnalysis, wipeErrors, dbCalls>>
    /\ UNCHANGED notWipeVars

ReadPayload ==
    /\ wipePc = "read"
    /\ \/ payload.DeleteCollectedGraphData
       \/ payload.DeleteDataQualityHistory
       \/ payload.DeleteFileIngestHistory
       \/ Len(payload.DeleteAssetGroupSelectors) > 0
    /\ wipePc' = "audit"
    /\ UNCHANGED <<payload, kickoffAnalysis, wipeErrors, dbCalls, wipeStatus>>
    /\ UNCHANGED notWipeVars

\* model.NewAuditEntry fails
NewAuditEntryFail ==
    /\ wipePc = "audit"
    /\ WipeReturn("StatusInternalServerError")
    /\ UNCHANGED <<payload, kickoffAnalysis, wipeErrors, dbCalls>>
    /\ UNCHANGED notWipeVars

\* the intent audit log is created, or creating it fails
AppendIntentAuditLog ==
    /\ wipePc = "audit"
    /\ \E ok \in BOOLEAN :
          /\ dbCalls' = Append(dbCalls, DBCall("AppendAuditLog", ok))
          /\ IF ok THEN /\ wipePc' = "graph"
                        /\ UNCHANGED wipeStatus
                   ELSE WipeReturn("StatusInternalServerError")
    /\ UNCHANGED <<payload, kickoffAnalysis, wipeErrors>>
    /\ UNCHANGED notWipeVars

\* delete graph: not selected
SkipCollectedGraphData ==
    /\ wipePc = "graph"
    /\ ~payload.DeleteCollectedGraphData
    /\ wipePc' = "selectors"
    /\ UNCHANGED <<payload, kickoffAnalysis, wipeErrors, dbCalls, wipeStatus>>
    /\ UNCHANGED notWipeVars

\* delete graph: the feature flag cannot be read
GetFlagByKeyFail ==
    /\ wipePc = "graph"
    /\ payload.DeleteCollectedGraphData
    /\ dbCalls' = Append(dbCalls, DBCall("GetFlagByKey", FALSE))
    /\ WipeReturn("StatusInternalServerError")
    /\ UNCHANGED <<payload, kickoffAnalysis, wipeErrors>>
    /\ UNCHANGED notWipeVars

\* delete graph: the feature flag is not enabled
ClearGraphDataDisabled ==
    /\ wipePc = "graph"
    /\ payload.DeleteCollectedGraphData
    /\ dbCalls' = Append(dbCalls, DBCall("GetFlagByKey", TRUE))
    /\ WipeReturn("StatusBadRequest")
    /\ UNCHANGED <<payload, kickoffAnalysis, wipeErrors>>
    /\ UNCHANGED notWipeVars

\* delete graph: RequestCollectedGraphDataDeletion returns an error
RequestDeletionFail ==
    /\ wipePc = "graph"
    /\ payload.DeleteCollectedGraphData
    /\ dbCalls' = dbCalls \o << DBCall("GetFlagByKey", TRUE),
                               DBCall("RequestCollectedGraphDataDeletion", FALSE) >>
    /\ WipeReturn("HandleDatabaseError")
    /\ UNCHANGED <<payload, kickoffAnalysis, wipeErrors>>
    /\ UNCHANGED notWipeVars

\* delete graph: the deletion is requested and the audit log is written;
\* kickoffAnalysis is left as it is
RequestDeletion ==
    /\ wipePc = "graph"
    /\ payload.DeleteCollectedGraphData
    /\ dbCalls' \in handleAuditLogForDatabaseWipe(
                       dbCalls \o << DBCall("GetFlagByKey", TRUE),
                                     DBCall("RequestCollectedGraphDataDeletion", TRUE) >>)
    /\ wipePc' = "selectors"
    /\ UNCHANGED <<payload, kickoffAnalysis, wipeErrors, wipeStatus>>
    /\ UNCHANGED notWipeVars

\* delete asset group selectors: none selected
SkipHighValueSelectors ==
    /\ wipePc = "selectors"
    /\ Len(payload.DeleteAssetGroupSelectors) = 0
    /\ wipePc' = "kickoff"
    /\ UNCHANGED <<payload, kickoffAnalysis, wipeErrors, dbCalls, wipeStatus>>
    /\ UNCHANGED notWipeVars

\* deleteHighValueSelectors: failed is recorded in errors, success sets
\* kickoffAnalysis
deleteHighValueSelectors ==
    /\ wipePc = "selectors"
    /\ Len(payload.DeleteAssetGroupSelectors) > 0
    /\ \E ok \in BOOLEAN :
          /\ dbCalls' \in handleAuditLogForDatabaseWipe(
                             Append(dbCalls, DBCall("DeleteAssetGroupSelectorsForAssetGroups", ok)))
          /\ IF ok THEN /\ kickoffAnalysis' = TRUE
                        /\ UNCHANGED wipeErrors
                   ELSE /\ wipeErrors' = Append(wipeErrors, "custom high value selectors")
                        /\ UNCHANGED kickoffAnalysis
    /\ wipePc' = "kickoff"
    /\ UNCHANGED <<payload, wipeStatus>>
    /\ UNCHANGED notWipeVars

\* kickoffAnalysis is not set: no analysis is requested
SkipKickoffAnalysis ==
    /\ wipePc = "kickoff"
    /\ ~kickoffAnalysis
    /\ wipePc' = "ingest"
    /\ UNCHANGED <<payload, kickoffAnalysis, wipeErrors, dbCalls, wipeStatus>>
    /\ UNCHANGED notWipeVars

\* kickoffAnalysis is set: RequestAnalysis is called, its error ends the request
KickoffAnalysis ==
    /\ wipePc = "kickoff"
    /\ kickoffAnalysis
    /\ \E ok \in BOOLEAN :
          /\ dbCalls' = Append(dbCalls, DBCall("RequestAnalysis", ok))
          /\ IF ok THEN /\ wipePc' = "ingest"
                        /\ UNCHANGED wipeStatus
                   ELSE WipeReturn("HandleDatabaseError")
    /\ UNCHANGED <<payload, kickoffAnalysis, wipeErrors>>
    /\ UNCHANGED notWipeVars

\* delete file ingest history, if selected
deleteFileIngestHistory ==
    /\ wipePc = "ingest"
    /\ IF payload.DeleteFileIngestHistory
          THEN \E ok \in BOOLEAN :
                  /\ dbCalls' \in handleAuditLogForDatabaseWipe(
                                     Append(dbCalls, DBCall("DeleteAllIngestJobs", ok)))
                  /\ wipeErrors' = IF ok THEN wipeErrors
                                         ELSE Append(wipeErrors, "file ingest history")
          ELSE UNCHANGED <<dbCalls, wipeErrors>>
    /\ wipePc' = "quality"
    /\ UNCHANGED <<payload, kickoffAnalysis, wipeStatus>>
    /\ UNCHANGED notWipeVars

\* delete data quality history, if selected
deleteDataQualityHistory ==
    /\ wipePc = "quality"
    /\ IF payload.DeleteDataQualityHistory
          THEN \E ok \in BOOLEAN :
                  /\ dbCalls' \in handleAuditLogForDatabaseWipe(
                                     Append(dbCalls, DBCall("DeleteAllDataQuality", ok)))
                  /\ wipeErrors' = IF ok THEN wipeErrors
                                         ELSE Append(wipeErrors, "data quality history")
          ELSE UNCHANGED <<dbCalls, wipeErrors>>
    /\ wipePc' = "respond"
    /\ UNCHANGED <<payload, kickoffAnalysis, wipeStatus>>
    /\ UNCHANGED notWipeVars

\* the response: an error naming what failed, or no content
WipeRespond ==
    /\ wipePc = "respond"
    /\ WipeReturn(IF Len(wipeErrors) > 0 THEN "StatusInternalServerError"
                                         ELSE "StatusNoContent")
    /\ UNCHANGED <<payload, kickoffAnalysis, wipeErrors, dbCalls>>
    /\ UNCHANGED notWipeVars

WipeNext ==
    \/ ReadPayloadBadRequest
    \/ ReadPayload
    \/ NewAuditEntryFail
    \/ AppendIntentAuditLog
    \/ SkipCollectedGraphData
    \/ GetFlagByKeyFail
    \/ ClearGraphDataDisabled
    \/ RequestDeletionFail
    \/ RequestDeletion
    \/ SkipHighValueSelectors
    \/ deleteHighValueSelectors
    \/ SkipKickoffAnalysis
    \/ KickoffAnalysis
    \/ deleteFileIngestHistory
    \/ deleteDataQualityHistory
    \/ WipeRespond

\* the calls made on s.DB so far
Called(call) == { i \in DOMAIN dbCalls : dbCalls[i].call = call }
Succeeded(call) == { i \in DOMAIN dbCalls : dbCalls[i] = DBCall(call, TRUE) }

\* C26: when the handler has returned and the collected graph data deletion
\* was requested successfully or the asset group selectors were deleted
\* successfully, RequestAnalysis has been called in the same request.
C26_SuccessKicksOffAnalysis ==
    ( /\ wipePc = "done"
      /\ \/ Succeeded("RequestCollectedGraphDataDeletion") # {}
         \/ Succeeded("DeleteAssetGroupSelectorsForAssetGroups") # {} )
    => Called("RequestAnalysis") # {}


\* ------------------------------------ analysis_request_switch (BloodhoundDB)
MaxCallers == 2
MaxRequestCalls == 3

\* the goroutines that call the database, each also the name of its requester
Callers == 1..MaxCallers

AnalysisRequestAnalysis == "analysis"
AnalysisRequestDeletion == "deletion"

\* one row of analysis_request_switch
AnalysisRequest(requestedBy, requestType, requestedAt) ==
    [requested_by |-> requestedBy, request_type |-> requestType, requested_at |-> requestedAt]

\* a caller that runs no call
NoCall == [pc |-> "idle", requestType |-> "none", analReq |-> <<>>]

RequestInit ==
    /\ requestSwitch = EmptyBag
    /\ requestCalls = [c \in Callers |-> NoCall]
    /\ requestsMade = 0
    /\ requestClock = 0
    /\ ResolveIdle /\ GraphIdle /\ CallIdle /\ Esc1Idle /\ TemplateIdle /\ OpIdle /\ SyncIdle /\ RdpIdle /\ CompIdle /\ WipeIdle /\ AuthIdle /\ CriteriaIdle /\ CounterIdle /\ LinkIdle

\* DeleteAnalysisRequest: truncate analysis_request_switch
DeleteAnalysisRequest(c) ==
    /\ requestCalls[c].pc = "idle"
    /\ requestsMade < MaxRequestCalls
    /\ requestsMade' = requestsMade + 1
    /\ requestSwitch' = EmptyBag
    /\ UNCHANGED <<requestCalls, requestClock>>
    /\ UNCHANGED notRequestVars

\* RequestAnalysis / RequestCollectedGraphDataDeletion up to the return of
\* s.GetAnalysisRequest(ctx) in setAnalysisRequest: ErrNotFound on an empty
\* table, else the row First() picks
GetAnalysisRequest(c, requestType) ==
    /\ requestCalls[c].pc = "idle"
    /\ requestsMade < MaxRequestCalls
    /\ requestsMade' = requestsMade + 1
    /\ IF requestSwitch = EmptyBag
       THEN requestCalls' = [requestCalls EXCEPT ![c] =
                [pc |-> "read", requestType |-> requestType, analReq |-> <<>>]]
       ELSE \E row \in BagToSet(requestSwitch) :
               requestCalls' = [requestCalls EXCEPT ![c] =
                   [pc |-> "read", requestType |-> requestType, analReq |-> <<row>>]]
    /\ UNCHANGED <<requestSwitch, requestClock>>
    /\ UNCHANGED notRequestVars

\* s.GetAnalysisRequest(ctx) returned another error: setAnalysisRequest returns it
GetAnalysisRequestFail(c, requestType) ==
    /\ requestCalls[c].pc = "idle"
    /\ requestsMade < MaxRequestCalls
    /\ requestsMade' = requestsMade + 1
    /\ UNCHANGED <<requestSwitch, requestCalls, requestClock>>
    /\ UNCHANGED notRequestVars

\* errors.Is(err, ErrNotFound): insert into analysis_request_switch
InsertAnalysisRequest(c) ==
    /\ requestCalls[c].pc = "read"
    /\ requestCalls[c].analReq = <<>>
    /\ requestClock' = requestClock + 1
    /\ requestSwitch' = requestSwitch (+)
          SetToBag({AnalysisRequest(c, requestCalls[c].requestType, requestClock')})
    /\ requestCalls' = [requestCalls EXCEPT ![c] = NoCall]
    /\ UNCHANGED requestsMade
    /\ UNCHANGED notRequestVars

\* the number of rows of the table
RowCount == BagCardinality(requestSwitch)

\* the request was an analysis request and a deletion is requested: update
\* analysis_request_switch set ..., which has no where clause
UpdateAnalysisRequest(c) ==
    /\ requestCalls[c].pc = "read"
    /\ requestCalls[c].analReq # <<>>
    /\ requestCalls[c].analReq[1].request_type = AnalysisRequestAnalysis
    /\ requestCalls[c].requestType = AnalysisRequestDeletion
    /\ requestClock' = requestClock + 1
    /\ requestSwitch' =
          IF RowCount = 0 THEN EmptyBag
          ELSE [row \in {AnalysisRequest(c, AnalysisRequestDeletion, requestClock')}
                   |-> RowCount]
    /\ requestCalls' = [requestCalls EXCEPT ![c] = NoCall]
    /\ UNCHANGED requestsMade
    /\ UNCHANGED notRequestVars

\* the insert or the update returned tx.Error (a database error, or a
\* constraint of the table that rejects the statement): no row is changed
ExecFail(c) ==
    /\ requestCalls[c].pc = "read"
    /\ \/ requestCalls[c].analReq = <<>>
       \/ /\ requestCalls[c].analReq # <<>>
          /\ requestCalls[c].analReq[1].request_type = AnalysisRequestAnalysis
          /\ requestCalls[c].requestType = AnalysisRequestDeletion
    /\ requestCalls' = [requestCalls EXCEPT ![c] = NoCall]
    /\ UNCHANGED <<requestSwitch, requestsMade, requestClock>>
    /\ UNCHANGED notRequestVars

\* a request exists and is not to be overwritten: return nil
IgnoreAnalysisRequest(c) ==
    /\ requestCalls[c].pc = "read"
    /\ requestCalls[c].analReq # <<>>
    /\ ~( /\ requestCalls[c].analReq[1].request_type = AnalysisRequestAnalysis
          /\ requestCalls[c].requestType = AnalysisRequestDeletion )
    /\ requestCalls' = [requestCalls EXCEPT ![c] = NoCall]
    /\ UNCHANGED <<requestSwitch, requestsMade, requestClock>>
    /\ UNCHANGED notRequestVars

RequestAnalysis(c) == GetAnalysisRequest(c, AnalysisRequestAnalysis)

RequestCollectedGraphDataDeletion(c) == GetAnalysisRequest(c, AnalysisRequestDeletion)

RequestNext ==
    \E c \in Callers :
        \/ DeleteAnalysisRequest(c)
        \/ RequestAnalysis(c)
        \/ RequestCollectedGraphDataDeletion(c)
        \/ \E requestType \in {AnalysisRequestAnalysis, AnalysisRequestDeletion} :
              GetAnalysisRequestFail(c, requestType)
        \/ InsertAnalysisRequest(c)
        \/ UpdateAnalysisRequest(c)
        \/ ExecFail(c)
        \/ IgnoreAnalysisRequest(c)

\* C25: the pending request changes only from none to analysis, from none to
\* deletion, from analysis to deletion, or to none by DeleteAnalysisRequest: a
\* pending deletion is never replaced and a pending request of the requested
\* type keeps its requester and its timestamp.
C25_OnlyAllowedTransitions ==
    [][ requestSwitch' # requestSwitch =>
          \/ requestSwitch' = <<>>
          \/ /\ requestSwitch = <<>>
             /\ BagCardinality(requestSwitch') = 1
          \/ /\ BagCardinality(requestSwitch) = 1
             /\ BagCardinality(requestSwitch') = 1
             /\ \A old \in DOMAIN requestSwitch : old.request_type = "analysis"
             /\ \A new \in DOMAIN requestSwitch' : new.request_type = "deletion" ]_vars

\* One run of ResolveAllGroupMemberships
Spec == ResolveInit /\ [][ResolveNext]_vars

\* Each traversal worker is a goroutine of its own and the calling goroutine runs
\* the loop over the roots: a step that stays possible is eventually taken.
FairSpec == Spec /\ WF_vars(ResolveNext)

\* One call of CalculateCrossProductNodeSets
CrossSpec == CrossInit /\ [][CrossNext]_vars

\* One call of isCertTemplateValidForEsc1
TemplateSpec == TemplateInit /\ [][TemplateNext]_vars

\* One call of PostADCSESC1
Esc1Spec == Esc1Init /\ [][Esc1Next]_vars

\* One run of PostLocalGroups
OpSpec == OpInit /\ [][OpNext]_vars

\* PostLocalGroups, each reader worker and the writer are goroutines of their
\* own: a reader job terminates, the writer keeps draining, the caller goes on.
OpFairSpec ==
    /\ OpSpec
    /\ WF_vars(PostLocalGroups)
    /\ WF_vars(ReaderWorkers)
    /\ WF_vars(WriterDrain)

\* One run of PostDCSync or of PostSyncLAPSPassword
SyncSpec == SyncInit /\ [][SyncNext]_vars

\* One call of FetchCanRDPEntityBitmapForComputer
CounterSpec == CounterInit /\ [][CounterNext]_vars

LinkSpec == LinkInit /\ [][LinkNext]_vars

OpCancelSpec == OpInit /\ [][OpCancelNext]_vars

RdpSpec == RdpInit /\ [][RdpNext]_vars

\* One call of GetADCSESC1EdgeComposition
CompSpec == CompInit /\ [][CompNext]_vars

\* Calls of RequestAnalysis, RequestCollectedGraphDataDeletion and
\* DeleteAnalysisRequest from the goroutines of the API
RequestSpec == RequestInit /\ [][RequestNext]_vars


\* one request to HandleDatabaseWipe, every payload and every outcome of the
\* database calls
WipeSpec == WipeInit /\ [][WipeNext]_vars


\* every context and every sequence of calls on the Authorizer
AuthSpec == AuthInit /\ [][AuthNext]_vars


\* a run of ExpandAllRDPLocalGroups on every graph and every choice of
\* Administrators groups
ExpandSpec == ExpandAllRDPLocalGroups /\ [][ResolveNext]_vars

=============================================================================
